---------------------------- MODULE Spec2Model ----------------------------
(***************************************************************************)
(* Model of the REST client of github.com/khekrn/core (package client):    *)
(* the builder, Build, and the request pipeline Request ->                 *)
(* executeWithRetry -> executeRequest, with the circuit breaker as the     *)
(* shared collaborator of all calls on one client.                         *)
(*                                                                         *)
(* Durations are whole microseconds.  The float64 BackoffFactor is the     *)
(* exact rational [num, den]; the configured values are such that no       *)
(* product has a fraction of a nanosecond, so the conversion               *)
(* time.Duration(float64) is the truncating division written below.        *)
(* Elapsing of time is an event: a backoff timer fires (TimerFire), the    *)
(* breaker's expiry passes (Expire), a context is cancelled or passes its  *)
(* deadline (Cancel).  HTTP status codes are valid ones (100..599).        *)
(***************************************************************************)
EXTENDS Integers, Sequences, FiniteSets, TLC

\* ------------------------------------------------------------- bounds
\* Largest MaxAttempts given to WithRetry (0 is included: WithRetry does
\* not validate its argument).
MaxAttemptsBound == 2
\* Calls started on the built client, over all callers.
MaxCalls == 2
\* Calls started under the specification with fairness.
MaxLiveCalls == 1

\* Goroutines that can issue calls on the one built client; under Spec
\* only the first does.
Callers == {"g1", "g2"}
Sequential == {"g1"}

\* ------------------------------------------------- program constants
DefaultMaxAttempts == 3
DefaultInitialBackoff == 100000
DefaultMaxBackoff == 5000000
DefaultCBMaxRequests == 3
DefaultCBMinRequests == 3

\* ------------------------------------------------------------ values
\* A nil *RetryConfig / *CircuitBreakerConfig / *gobreaker.CircuitBreaker.
Nil == [nil |-> TRUE]

\* RetryConfig (values, not pointers: WithRetry copies its argument).
RetryConfig(n, ib, mb, f) ==
    [nil |-> FALSE, MaxAttempts |-> n, InitialBackoff |-> ib,
     MaxBackoff |-> mb, BackoffFactor |-> f]

DefaultRetryConfig ==
    RetryConfig(DefaultMaxAttempts, DefaultInitialBackoff, DefaultMaxBackoff,
                [num |-> 2, den |-> 1])

\* The configurations a caller hands to WithRetry: factor 1.5, 4us, 5us.
CustomRetryConfigs ==
    { RetryConfig(n, 4, 5, [num |-> 3, den |-> 2]) : n \in 0..MaxAttemptsBound }

\* CircuitBreakerConfig; ReadyToTrip is a function value, named by a tag.
CircuitBreakerConfig(name, mr, iv, to, rtt) ==
    [nil |-> FALSE, Name |-> name, MaxRequests |-> mr, Interval |-> iv,
     Timeout |-> to, ReadyToTrip |-> rtt]

DefaultCircuitBreakerConfig(name) ==
    CircuitBreakerConfig(name, DefaultCBMaxRequests, 10000000, 60000000, "default")

\* The configuration a caller hands to WithCircuitBreaker: one trial
\* request, no rolling window, trips on the first failure.
CustomCircuitBreakerConfigs ==
    { CircuitBreakerConfig("svc", 1, 0, 30000000, "consecutive") }

\* An error value: the chain of wrapping prefixes (outermost first), the
\* innermost error and, for "HTTP %d", the status code.
Err(chain, base, status) == [chain |-> chain, base |-> base, status |-> status]
NoErr == Err(<<>>, "nil", 0)
Wrap(prefix, e) == [e EXCEPT !.chain = <<prefix>> \o e.chain]

\* What a call returns: (*Response, error).
NoResult == [kind |-> "none", status |-> 0, err |-> NoErr]
RespResult(status) == [kind |-> "resp", status |-> status, err |-> NoErr]
ErrResult(e) == [kind |-> "err", status |-> 0, err |-> e]

\* Status codes a server answers with.
Statuses == {200, 404, 408, 429, 500}

\* What rc.client.Do and io.ReadAll produce for one attempt.
TransportError == [kind |-> "err", cause |-> "transport", status |-> 0]
ContextError == [kind |-> "err", cause |-> "ctx", status |-> 0]
ReadError == [kind |-> "readerr", cause |-> "nil", status |-> 200]
Outcomes ==
    {TransportError, ReadError}
    \cup { [kind |-> "resp", cause |-> "nil", status |-> s] : s \in Statuses }

\* ------------------------------------------------- retry (pure parts)
\* time.Duration(f): conversion of a float to an integer truncates toward 0.
Trunc(n, d) == IF n >= 0 THEN n \div d ELSE -((-n) \div d)

\* Mutant: the loop runs one attempt too many (attempt <= MaxAttempts).
getMaxAttemptsOffByOne(retry) == IF retry.nil THEN 1 ELSE retry.MaxAttempts + 1

getMaxAttempts(retry) == IF retry.nil THEN 1 ELSE retry.MaxAttempts

\* Mutant: the delay is not clamped.
calculateBackoffUnclamped(retry, att) ==
    IF retry.nil THEN 0
    ELSE Trunc(retry.InitialBackoff * (retry.BackoffFactor.num * (att - 1)),
               retry.BackoffFactor.den)

\* InitialBackoff * (BackoffFactor * (attempt-1)), clamped to MaxBackoff.
calculateBackoff(retry, att) ==
    IF retry.nil THEN 0
    ELSE LET d == Trunc(retry.InitialBackoff
                          * (retry.BackoffFactor.num * (att - 1)),
                        retry.BackoffFactor.den)
         IN IF d > retry.MaxBackoff THEN retry.MaxBackoff ELSE d

\* Mutant: every 4xx and 5xx status is retried.
shouldRetryClientErrors(statusCode) == statusCode >= 400

shouldRetry(statusCode) ==
    statusCode >= 500 \/ statusCode = 429 \/ statusCode = 408

\* The branches the select of the backoff wait can take at once: the timer
\* of a delay <= 0 is ready, a finished context's Done channel is ready;
\* with both ready the runtime picks either; with none the goroutine blocks.
SelectBranches(d, ctx) ==
    IF d <= 0 /\ ctx = "done" THEN {"timer", "ctx"}
    ELSE IF d <= 0 THEN {"timer"}
    ELSE IF ctx = "done" THEN {"ctx"}
    ELSE {"block"}

\* Mutant: the cancellation is reported as an exhausted retry budget.
ContextResultAsExhausted == ErrResult(Err(<<"max retries exceeded">>, "ctx", 0))

\* return nil, req.Context().Err()
ContextResult == ErrResult(Err(<<>>, "ctx", 0))

\* return nil, fmt.Errorf("max retries exceeded: %w", lastErr)
ExhaustedResult(lastErr) == ErrResult(Wrap("max retries exceeded", lastErr))

\* ------------------------------------------------ the circuit breaker
\* gobreaker.CircuitBreaker: the engine behind rc.circuitBreaker.  expired
\* says that the current expiry instant (end of the rolling window when
\* Closed with Interval > 0, end of the open-state timeout when Open) has
\* passed; the engine notices it at its next beforeRequest/afterRequest.
NewCounts ==
    [Requests |-> 0, TotalSuccesses |-> 0, TotalFailures |-> 0,
     ConsecutiveSuccesses |-> 0, ConsecutiveFailures |-> 0]

\* Mutant: the default predicate trips at half of the requests failed.
ReadyToTripAtHalf(tag, counts) ==
    IF tag = "default"
    THEN counts.Requests >= DefaultCBMinRequests
         /\ 10 * counts.TotalFailures >= 5 * counts.Requests
    ELSE counts.ConsecutiveFailures >= 1

\* The trip predicates: the one of WithDefaultCircuitBreaker and a
\* caller-supplied one.
ReadyToTrip(tag, counts) ==
    IF tag = "default"
    THEN counts.Requests >= DefaultCBMinRequests
         /\ 10 * counts.TotalFailures >= 6 * counts.Requests
    ELSE counts.ConsecutiveFailures >= 1

\* Mutant: Build does not hand MaxRequests on; the engine keeps its own
\* default of one trial request.
SettingsWithoutMaxRequests(cfg) ==
    [Name |-> cfg.Name, MaxRequests |-> 1,
     Interval |-> cfg.Interval, Timeout |-> cfg.Timeout,
     ReadyToTrip |-> cfg.ReadyToTrip]

\* gobreaker.Settings as Build fills them from the builder's configuration.
Settings(cfg) ==
    [Name |-> cfg.Name, MaxRequests |-> cfg.MaxRequests,
     Interval |-> cfg.Interval, Timeout |-> cfg.Timeout,
     ReadyToTrip |-> cfg.ReadyToTrip]

NewCircuitBreaker(st) ==
    [nil |-> FALSE, state |-> "closed", generation |-> 0, counts |-> NewCounts,
     expired |-> FALSE, name |-> st.Name, maxRequests |-> st.MaxRequests,
     interval |-> st.Interval, timeout |-> st.Timeout,
     readyToTrip |-> st.ReadyToTrip]

toNewGeneration(br) ==
    [br EXCEPT !.generation = @ + 1, !.counts = NewCounts, !.expired = FALSE]

setState(br, s) ==
    IF br.state = s THEN br ELSE toNewGeneration([br EXCEPT !.state = s])

currentState(br) ==
    IF br.state = "closed" /\ br.interval > 0 /\ br.expired
    THEN toNewGeneration(br)
    ELSE IF br.state = "open" /\ br.expired THEN setState(br, "half-open")
    ELSE br

\* [br: the engine afterwards, err: "nil" when the request is admitted]
beforeRequest(br) ==
    LET c == currentState(br) IN
    IF c.state = "open" THEN [br |-> c, err |-> "ErrOpenState"]
    ELSE IF c.state = "half-open" /\ c.counts.Requests >= c.maxRequests
    THEN [br |-> c, err |-> "ErrTooManyRequests"]
    ELSE [br |-> [c EXCEPT !.counts.Requests = @ + 1], err |-> "nil"]

onSuccess(c) ==
    LET n == [c EXCEPT !.counts.TotalSuccesses = @ + 1,
                       !.counts.ConsecutiveSuccesses = @ + 1,
                       !.counts.ConsecutiveFailures = 0]
    IN IF c.state = "closed" THEN n
       ELSE IF c.state = "half-open"
       THEN IF n.counts.ConsecutiveSuccesses >= n.maxRequests
            THEN setState(n, "closed") ELSE n
       ELSE c

onFailure(c) ==
    LET n == [c EXCEPT !.counts.TotalFailures = @ + 1,
                       !.counts.ConsecutiveFailures = @ + 1,
                       !.counts.ConsecutiveSuccesses = 0]
    IN IF c.state = "closed"
       THEN IF ReadyToTrip(n.readyToTrip, n.counts) THEN setState(n, "open") ELSE n
       ELSE IF c.state = "half-open" THEN setState(c, "open")
       ELSE c

afterRequest(br, before, success) ==
    LET c == currentState(br) IN
    IF c.generation # before THEN c
    ELSE IF success THEN onSuccess(c) ELSE onFailure(c)

\* ------------------------------------------------ one attempt's result
\* What executeRequest returns for what client.Do and io.ReadAll produced:
\* with a breaker every error of Execute is wrapped.
ExecuteResult(o, hasCB) ==
    IF o.kind = "err"
    THEN ErrResult(IF hasCB THEN Err(<<"circuit breaker">>, o.cause, 0)
                   ELSE Err(<<>>, o.cause, 0))
    ELSE IF o.kind = "readerr"
    THEN ErrResult(Err(<<"failed to read response body">>, "read", 0))
    ELSE RespResult(o.status)

\* Mutant: the breaker admits the request but is never told its outcome.
ThroughBreakerOnAdmissionOnly(cl, br) == ~br.nil /\ cl.pc = "exec"

\* Mutant: only the first attempt of a call goes through the breaker.
ThroughBreakerFirstAttemptOnly(cl, br) == ~br.nil /\ cl.attempt = 0

\* if rc.circuitBreaker != nil: client.Do runs inside Execute.
ThroughBreaker(cl, br) == ~br.nil

\* Mutant: the function handed to Execute reports a retryable status as
\* an error.
ExecuteSucceededBelow500(o) == o.kind # "err" /\ ~(o.kind = "resp" /\ o.status >= 500)

\* The function handed to Execute returns client.Do's result: the breaker
\* sees an error exactly when client.Do returned one; the status is not
\* looked at, and the body is read after Execute has returned.
ExecuteSucceeded(o) == o.kind # "err"

\* What executeRequest returns when Execute refuses the request.
RejectResult(e) == ErrResult(Err(<<"circuit breaker">>, e, 0))

\* Mutant: a refusal of the breaker ends the retry loop at once.
ReturnsOnRefusal(res) ==
    \/ res.kind = "resp" /\ ~shouldRetry(res.status)
    \/ res.kind = "err" /\ res.err.base \in {"ErrOpenState", "ErrTooManyRequests"}

\* executeWithRetry: err == nil && !rc.shouldRetry(resp.StatusCode)
Returns(res) == res.kind = "resp" /\ ~shouldRetry(res.status)

\* lastErr = err; if err == nil { lastErr = fmt.Errorf("HTTP %d", ...) }
LastErr(res) ==
    IF res.kind = "err" THEN res.err ELSE Err(<<>>, "HTTP", res.status)

\* Mutant: a failed attempt is not counted (the loop has no attempt++).
ContinueWithoutCounting(cl, res, retry) ==
    IF retry.nil \/ Returns(res)
    THEN [cl EXCEPT !.pc = "done", !.result = res]
    ELSE [cl EXCEPT !.pc = "loop", !.attempt = IF @ = 0 THEN 1 ELSE @,
                    !.lastErr = LastErr(res)]

\* Mutant: Request goes through the retry loop even without a policy.
ContinueAlwaysLoop(cl, res, retry) ==
    IF res.kind = "resp" /\ ~shouldRetry(res.status)
    THEN [cl EXCEPT !.pc = "done", !.result = res]
    ELSE [cl EXCEPT !.pc = "loop", !.attempt = @ + 1,
                    !.lastErr = IF res.kind = "err" THEN res.err
                                ELSE Err(<<>>, "HTTP", res.status)]

\* The caller of executeRequest, from its return to the next loop head:
\* Request without a retry policy returns the result as it is.
Continue(cl, res, retry) ==
    IF retry.nil \/ Returns(res)
    THEN [cl EXCEPT !.pc = "done", !.result = res]
    ELSE [cl EXCEPT !.pc = "loop", !.attempt = @ + 1, !.lastErr = LastErr(res)]

\* executeWithRetry from the loop condition to its next blocking point;
\* br is the branch the select takes ("none" when no select is reached).
LoopHead(cl, retry, br) ==
    IF cl.attempt >= getMaxAttempts(retry)
    THEN [cl EXCEPT !.pc = "done", !.result = ExhaustedResult(cl.lastErr)]
    ELSE IF cl.attempt = 0 THEN [cl EXCEPT !.pc = "exec"]
    ELSE LET d == calculateBackoff(retry, cl.attempt)
             w == [cl EXCEPT !.delay = d,
                             !.sel = [ctx |-> cl.ctx = "done", took |-> br]]
         IN IF br = "timer" THEN [w EXCEPT !.pc = "exec"]
            ELSE IF br = "ctx"
            THEN [w EXCEPT !.pc = "done", !.result = ContextResult]
            ELSE [w EXCEPT !.pc = "wait"]

LoopBranches(cl, retry) ==
    IF cl.attempt >= getMaxAttempts(retry) \/ cl.attempt = 0 THEN {"none"}
    ELSE SelectBranches(calculateBackoff(retry, cl.attempt), cl.ctx)

\* ------------------------------------------------------------- state
VARIABLES
    phase,   \* "building" until Build, then "built"
    b,       \* the ClientBuilder: retry, circuitBreaker
    rc,      \* the RESTClient: retry (the breaker engine is cb)
    cb,      \* rc.circuitBreaker: Nil or the engine's state
    call,    \* per caller: the call it is in
    ncalls   \* calls started so far

\* The state of the builders and clients of the configuration scenarios
\* (SpecCfg, further down); it is idle under Spec and SpecConc.
VARIABLES
    maps,      \* the heap of header maps (map[string]string), by address
    builders,  \* the ClientBuilders, by name
    clients,   \* the RESTClients built so far, in order
    inherit,   \* history: what each derived builder started from
    nconfig,   \* history: configuration calls made so far
    last       \* history: the builder the last step was a call on

cfgvars == <<maps, builders, clients, inherit, nconfig, last>>

\* No builder, no client.
CfgIdle ==
    /\ maps = <<>>
    /\ builders = <<>>
    /\ clients = <<>>
    /\ inherit = <<>>
    /\ nconfig = 0
    /\ last = "none"

\* The state of the scenarios for single operations (SpecReq, SpecResp,
\* SpecJSON, further down): the operation's receiver and arguments and what
\* it returned.
VARIABLES
    reqClient,  \* createRequest: the RESTClient's baseURL and defaultHeaders
    reqConfig,  \* createRequest: the RequestConfig
    reqOut,     \* createRequest: the *http.Request or the error
    response,   \* the Response a method is called on
    respOut,    \* what the method returned
    mergeArgs,  \* MergeJSON: its arguments
    mergeOut,   \* MergeJSON: what it returned
    emptyArg,   \* IsEmptyJSON: its argument
    emptyOut    \* IsEmptyJSON: what it returned

reqvars == <<reqClient, reqConfig, reqOut>>
respvars == <<response, respOut>>
jsonvars == <<mergeArgs, mergeOut, emptyArg, emptyOut>>

None == [none |-> TRUE]

ReqIdle == reqClient = None /\ reqConfig = None /\ reqOut = None
RespIdle == response = None /\ respOut = None
JSONIdle ==
    /\ mergeArgs = <<>> /\ mergeOut = None
    /\ emptyArg = None /\ emptyOut = None

\* The state of the scenarios for the packages beside the client: the
\* response envelope (package base / response), the logger (package log)
\* and the backoff delays of one retry policy.
VARIABLES
    envelope,  \* the Response a constructor of the envelope returned
    Logger,    \* var Logger *zap.Logger, the process-wide logger
    logCtx,    \* the context.Context handed to FromContext
    logOut,    \* what FromContext returned
    policy,    \* rc.retry of the client whose delays are computed
    delays,    \* calculateBackoff(1), calculateBackoff(2), ... so far
    timed      \* one attempt against the clock: the timeouts and the time

envvars == <<envelope>>
logvars == <<Logger, logCtx, logOut>>
backoffvars == <<policy, delays>>
timevars == <<timed>>
sidevars == <<envvars, logvars, backoffvars, timevars>>

EnvIdle == envelope = None
LogIdle == Logger = None /\ logCtx = None /\ logOut = None
BackoffIdle == policy = None /\ delays = <<>>
TimeIdle == timed = None
SideIdle == EnvIdle /\ LogIdle /\ BackoffIdle /\ TimeIdle

\* Everything that is not the state of the calls on the one client.
others == <<cfgvars, reqvars, respvars, jsonvars, sidevars>>
OthersIdle == CfgIdle /\ ReqIdle /\ RespIdle /\ JSONIdle /\ SideIdle

callvars == <<phase, b, rc, cb, call, ncalls>>

vars == <<callvars, others>>

\* A caller's record.  pc: "idle", "loop" (at the loop condition), "wait"
\* (blocked in the select), "exec" (about to call executeRequest),
\* "flight" (inside client.Do), "done" (Request has returned result).
\* attempt and lastErr are executeWithRetry's locals, gen the breaker
\* generation Execute took before the request.  History: tries
\* (executeRequest calls), transports (client.Do calls), rejects, out (what
\* the last attempt ended in), delay and sel (the last backoff wait).
\* body is the reader createRequest made of config.Body, the one req.Body
\* of all attempts: "none", "unread" (at its start) or "drained" (at its
\* end); sent (history) is what the last transport attempt carried.
IdleCall ==
    [pc |-> "idle", attempt |-> 0, lastErr |-> NoErr, result |-> NoResult,
     ctx |-> "none", gen |-> 0, tries |-> 0, transports |-> 0, rejects |-> 0,
     out |-> [kind |-> "none", cause |-> "nil", status |-> 0],
     delay |-> 0, sel |-> [ctx |-> FALSE, took |-> "none"],
     body |-> "none", sent |-> "none"]

\* What the transport reads from req.Body: all of it from a reader at its
\* start, nothing from one at its end.
Carried(body) ==
    IF body = "unread" THEN "full" ELSE IF body = "drained" THEN "empty" ELSE "none"

\* rc.client.Do(req) is entered: the transport will write the request,
\* reading req.Body from where the reader stands.
Do(cl) ==
    [cl EXCEPT !.pc = "flight", !.transports = @ + 1, !.sent = Carried(cl.body)]

\* Where the reader can stand when client.Do has returned o: at its end
\* once the request was written, which a response implies; an error can
\* come before the body was read.  Nothing sets the reader back.
Remaining(cl, o) ==
    IF cl.body = "none" THEN {"none"}
    ELSE IF o.kind = "err" THEN {cl.body, "drained"}
    ELSE {"drained"}

NewClientBuilder == [retry |-> Nil, circuitBreaker |-> Nil]

\* The calls on the one client before the builder's first call.
CallsIdle ==
    /\ phase = "building"
    /\ b = NewClientBuilder
    /\ rc = [retry |-> Nil]
    /\ cb = Nil
    /\ call = [c \in Callers |-> IdleCall]
    /\ ncalls = 0

Init == CallsIdle /\ OthersIdle

\* ------------------------------------------------------- the builder
WithRetry(config) ==
    /\ phase = "building"
    /\ b' = [b EXCEPT !.retry = config]
    /\ UNCHANGED <<others, phase, rc, cb, call, ncalls>>

WithDefaultRetry ==
    /\ phase = "building"
    /\ b' = [b EXCEPT !.retry = DefaultRetryConfig]
    /\ UNCHANGED <<others, phase, rc, cb, call, ncalls>>

WithCircuitBreaker(config) ==
    /\ phase = "building"
    /\ b' = [b EXCEPT !.circuitBreaker = config]
    /\ UNCHANGED <<others, phase, rc, cb, call, ncalls>>

WithDefaultCircuitBreaker(name) ==
    /\ phase = "building"
    /\ b' = [b EXCEPT !.circuitBreaker = DefaultCircuitBreakerConfig(name)]
    /\ UNCHANGED <<others, phase, rc, cb, call, ncalls>>

Build ==
    /\ phase = "building"
    /\ phase' = "built"
    /\ rc' = [retry |-> b.retry]
    /\ cb' = IF b.circuitBreaker.nil THEN Nil
             ELSE NewCircuitBreaker(Settings(b.circuitBreaker))
    /\ UNCHANGED <<others, b, call, ncalls>>

\* ---------------------------------------------------------- the calls
\* Request(config): createRequest, then executeWithRetry or executeRequest
\* up to the first executeRequest.  withCtx: the call is bound to a
\* context that can still be cancelled; created: createRequest succeeds;
\* withBody: config.Body is not nil.
Request(c, withCtx, created, withBody) ==
    /\ phase = "built"
    /\ call[c].pc \in {"idle", "done"}
    /\ ncalls < MaxCalls
    /\ ncalls' = ncalls + 1
    /\ LET cl == [IdleCall EXCEPT !.ctx = IF withCtx THEN "live" ELSE "none",
                                  !.body = IF withBody /\ created THEN "unread"
                                           ELSE "none"]
       IN call' = [call EXCEPT ![c] =
            IF ~created
            THEN [cl EXCEPT !.pc = "done",
                            !.result = ErrResult(Err(<<"failed to create request">>,
                                                     "create", 0))]
            ELSE IF rc.retry.nil THEN [cl EXCEPT !.pc = "exec"]
            ELSE LoopHead(cl, rc.retry, "none")]
    /\ UNCHANGED <<others, phase, b, rc, cb>>

\* executeWithRetry at the loop condition after a failed attempt.
Loop(c) ==
    /\ call[c].pc = "loop"
    /\ \E br \in LoopBranches(call[c], rc.retry) :
         call' = [call EXCEPT ![c] = LoopHead(@, rc.retry, br)]
    /\ UNCHANGED <<others, phase, b, rc, cb, ncalls>>

\* case <-time.After(delay): the timer wakes the blocked call.
TimerFire(c) ==
    /\ call[c].pc = "wait"
    /\ call' = [call EXCEPT ![c].pc = "exec", ![c].sel.took = "woke-timer"]
    /\ UNCHANGED <<others, phase, b, rc, cb, ncalls>>

\* The call's context is cancelled or passes its deadline; a call blocked
\* in the select wakes on <-req.Context().Done() and returns.
Cancel(c) ==
    /\ call[c].ctx = "live"
    /\ call[c].pc \in {"loop", "wait", "exec", "flight"}
    /\ call' = [call EXCEPT ![c] =
         IF @.pc = "wait"
         THEN [@ EXCEPT !.ctx = "done", !.pc = "done", !.result = ContextResult,
                        !.sel.took = "woke-ctx"]
         ELSE [@ EXCEPT !.ctx = "done"]]
    /\ UNCHANGED <<others, phase, b, rc, cb, ncalls>>

\* executeRequest up to client.Do: directly, or through Execute, whose
\* beforeRequest admits the request or refuses it.
ExecStart(c) ==
    /\ call[c].pc = "exec"
    /\ LET cl == [call[c] EXCEPT !.tries = @ + 1] IN
       IF ~ThroughBreaker(cl, cb)
       THEN /\ cb' = cb
            /\ call' = [call EXCEPT ![c] = Do(cl)]
       ELSE LET r == beforeRequest(cb) IN
            /\ cb' = r.br
            /\ call' = [call EXCEPT ![c] =
                 IF r.err = "nil"
                 THEN [Do(cl) EXCEPT !.gen = r.br.generation]
                 ELSE Continue([cl EXCEPT !.rejects = @ + 1,
                                          !.out = [kind |-> "rejected",
                                                   cause |-> r.err, status |-> 0]],
                               RejectResult(r.err), rc.retry)]
    /\ UNCHANGED <<others, phase, b, rc, ncalls>>

\* client.Do returns (and the body is read); Execute's afterRequest
\* records the outcome; executeRequest returns to its caller.
TransportReturn(c, o) ==
    /\ call[c].pc = "flight"
    /\ call[c].ctx = "done" => o = ContextError
    /\ cb' = IF ThroughBreaker(call[c], cb)
             THEN afterRequest(cb, call[c].gen, ExecuteSucceeded(o)) ELSE cb
    /\ \E rest \in Remaining(call[c], o) :
         call' = [call EXCEPT ![c] =
           Continue([@ EXCEPT !.out = o, !.body = rest],
                    ExecuteResult(o, ThroughBreaker(call[c], cb)), rc.retry)]
    /\ UNCHANGED <<others, phase, b, rc, ncalls>>

\* The breaker's current expiry instant passes.
Expire ==
    /\ ~cb.nil
    /\ ~cb.expired
    /\ cb.state = "open" \/ (cb.state = "closed" /\ cb.interval > 0)
    /\ cb' = [cb EXCEPT !.expired = TRUE]
    /\ UNCHANGED <<others, phase, b, rc, call, ncalls>>

Building ==
    \/ \E config \in CustomRetryConfigs : WithRetry(config)
    \/ WithDefaultRetry
    \/ \E config \in CustomCircuitBreakerConfigs : WithCircuitBreaker(config)
    \/ WithDefaultCircuitBreaker("svc")
    \/ Build

Calls(cs) ==
    \/ \E c \in cs, withCtx \in BOOLEAN, created \in BOOLEAN, withBody \in BOOLEAN :
         Request(c, withCtx, created, withBody)
    \/ \E c \in cs : Loop(c)
    \/ \E c \in cs : TimerFire(c)
    \/ \E c \in cs : Cancel(c)
    \/ \E c \in cs : ExecStart(c)
    \/ \E c \in cs, o \in Outcomes \cup {ContextError} : TransportReturn(c, o)
    \/ Expire

Next == Building \/ Calls(Sequential)

\* What a call's progress rests on: the goroutine running the call takes
\* its own steps (the loop head, the entry into executeRequest), every
\* transport attempt returns, and every backoff timer fires unless the
\* select has already taken the context's branch.
Fairness ==
    \A c \in Sequential :
      /\ WF_vars(Loop(c))
      /\ WF_vars(ExecStart(c))
      /\ WF_vars(TimerFire(c))
      /\ WF_vars(\E o \in Outcomes \cup {ContextError} : TransportReturn(c, o))

\* Request, the calls started capped at MaxLiveCalls.
RequestLive(c, withCtx, created, withBody) ==
    /\ ncalls < MaxLiveCalls
    /\ Request(c, withCtx, created, withBody)

CallsLive(cs) ==
    \/ \E c \in cs, withCtx \in BOOLEAN, created \in BOOLEAN, withBody \in BOOLEAN :
         RequestLive(c, withCtx, created, withBody)
    \/ \E c \in cs : Loop(c)
    \/ \E c \in cs : TimerFire(c)
    \/ \E c \in cs : Cancel(c)
    \/ \E c \in cs : ExecStart(c)
    \/ \E c \in cs, o \in Outcomes \cup {ContextError} : TransportReturn(c, o)
    \/ Expire

NextLive == Building \/ CallsLive(Sequential)

SpecLive == Init /\ [][NextLive]_vars /\ Fairness

Spec == Init /\ [][Next]_vars

\* ------------------------------------------- concurrent calls, one client
\* Two goroutines share a client that was built with a circuit breaker
\* (default or custom) and with the default retry policy or none; the
\* calls carry no cancellable context.
ConcBuilders ==
    { [retry |-> r, circuitBreaker |-> k] :
        r \in {Nil, DefaultRetryConfig},
        k \in {DefaultCircuitBreakerConfig("svc")} \cup CustomCircuitBreakerConfigs }

ConcOutcomes ==
    { o \in Outcomes : o.kind = "err" \/ (o.kind = "resp" /\ o.status \in {200, 500}) }

InitConc ==
    /\ phase = "built"
    /\ b \in ConcBuilders
    /\ rc = [retry |-> b.retry]
    /\ cb = NewCircuitBreaker(Settings(b.circuitBreaker))
    /\ call = [c \in Callers |-> IdleCall]
    /\ ncalls = 0
    /\ OthersIdle

NextConc ==
    \/ \E c \in Callers : Request(c, FALSE, TRUE, FALSE)
    \/ \E c \in Callers : Loop(c)
    \/ \E c \in Callers : TimerFire(c)
    \/ \E c \in Callers : ExecStart(c)
    \/ \E c \in Callers, o \in ConcOutcomes : TransportReturn(c, o)
    \/ Expire

SpecConc == InitConc /\ [][NextConc]_vars

\* ------------------------------------------------------------ strings
\* A string is the sequence of its characters.
Slash == <<"/">>

HasSuffix(s, suffix) ==
    Len(s) >= Len(suffix) /\ SubSeq(s, Len(s) - Len(suffix) + 1, Len(s)) = suffix

HasPrefix(s, prefix) ==
    Len(s) >= Len(prefix) /\ SubSeq(s, 1, Len(prefix)) = prefix

\* strings.TrimSuffix / strings.TrimPrefix: one occurrence is removed.
TrimSuffix(s, suffix) ==
    IF HasSuffix(s, suffix) THEN SubSeq(s, 1, Len(s) - Len(suffix)) ELSE s

TrimPrefix(s, prefix) ==
    IF HasPrefix(s, prefix) THEN SubSeq(s, Len(prefix) + 1, Len(s)) ELSE s

\* --------------------------------------------------------------- maps
\* A map[string]string is the function from its keys to their values.
EmptyMap == <<>>

\* Mutant: the assignment replaces the map by one holding only the new key.
PutAlone(m, k, v) == [x \in {k} |-> v]

\* m[k] = v
Put(m, k, v) == [x \in DOMAIN m \cup {k} |-> IF x = k THEN v ELSE m[x]]

\* for k, v := range src { dst[k] = v }
PutAll(dst, src) ==
    [x \in DOMAIN dst \cup DOMAIN src |-> IF x \in DOMAIN src THEN src[x] ELSE dst[x]]

\* ------------------------------------- builders and the clients they build
\* Clients built in one scenario.
MaxClients == 2
\* Configuration calls made in one scenario, over all builders.
MaxConfigCalls == 3

DefaultTimeout == 30000000

\* What the configuration calls are given.
CfgTimeouts == {20000000}
CfgBaseURLs == {<<"b", "/">>}
CfgKeys == {"Authorization", "X-Service"}
CfgValues == {"v1"}
CfgHeaderMaps == {[k \in {"Authorization"} |-> "v2"]}
CfgNames == {"svc"}

\* NewClientBuilder(); addr is the address of the map it makes.  The
\* connection-pool fields, the tracing toggle and the transport override
\* play no part in what follows and are left out.
NewClientBuilderAt(addr) ==
    [timeout |-> DefaultTimeout, baseURL |-> <<>>, defaultHeaders |-> addr,
     retry |-> Nil, circuitBreaker |-> Nil]

\* Mutant: the derived builder writes into the parent's header map.
SharedBuilderSharingHeaders(parent, heap, name, baseURL, addr) ==
    [timeout |-> parent.timeout,
     baseURL |-> IF baseURL = <<>> THEN parent.baseURL
                 ELSE TrimSuffix(baseURL, Slash),
     defaultHeaders |-> parent.defaultHeaders,
     retry |-> parent.retry,
     circuitBreaker |->
         IF parent.circuitBreaker.nil THEN Nil
         ELSE CircuitBreakerConfig(name, parent.circuitBreaker.maxRequests,
                                   parent.circuitBreaker.interval,
                                   parent.circuitBreaker.timeout,
                                   parent.circuitBreaker.readyToTrip)]

\* Build(): the RESTClient it returns (timeout is client.Timeout) and the
\* heap afterwards.  defaultHeaders: b.defaultHeaders copies the map's
\* address, not the map.
BuildClient(bld, heap) ==
    [client |-> [timeout |-> bld.timeout, baseURL |-> bld.baseURL,
                 defaultHeaders |-> bld.defaultHeaders, retry |-> bld.retry,
                 circuitBreaker |->
                     IF bld.circuitBreaker.nil THEN Nil
                     ELSE NewCircuitBreaker(Settings(bld.circuitBreaker))],
     heap |-> heap]

\* What a client is configured with, the header map read through its
\* address, the breaker by the policy it was made from.
PolicyOf(br) ==
    IF br.nil THEN Nil
    ELSE [nil |-> FALSE, MaxRequests |-> br.maxRequests, Interval |-> br.interval,
          Timeout |-> br.timeout, ReadyToTrip |-> br.readyToTrip]

View(cl, heap) ==
    [timeout |-> cl.timeout, baseURL |-> cl.baseURL,
     headers |-> heap[cl.defaultHeaders], retry |-> cl.retry,
     policy |-> PolicyOf(cl.circuitBreaker)]

\* FromSharedClient(parent, name, baseURL): a builder that starts from the
\* parent's timeout, retry policy, breaker policy (under the new name) and
\* a copy of its default headers, at the given base URL or, given "", the
\* parent's.  addr is the address of the copy.
SharedBuilder(parent, heap, name, baseURL, addr) ==
    [timeout |-> parent.timeout,
     baseURL |-> IF baseURL = <<>> THEN parent.baseURL
                 ELSE TrimSuffix(baseURL, Slash),
     defaultHeaders |-> addr,
     retry |-> parent.retry,
     circuitBreaker |->
         IF parent.circuitBreaker.nil THEN Nil
         ELSE CircuitBreakerConfig(name, parent.circuitBreaker.maxRequests,
                                   parent.circuitBreaker.interval,
                                   parent.circuitBreaker.timeout,
                                   parent.circuitBreaker.readyToTrip)]

\* History: the derived builder n has had field f set.
Overridden(n, f) ==
    IF n \in DOMAIN inherit THEN [inherit EXCEPT ![n].set = @ \cup {f}] ELSE inherit

InitCfg ==
    /\ maps = <<EmptyMap>>
    /\ builders = [n \in {"base"} |-> NewClientBuilderAt(1)]
    /\ clients = <<>>
    /\ inherit = <<>>
    /\ nconfig = 0
    /\ last = "none"
    /\ CallsIdle /\ ReqIdle /\ RespIdle /\ JSONIdle /\ SideIdle

BuilderWithTimeout(n, timeout) ==
    /\ n \in DOMAIN builders
    /\ nconfig < MaxConfigCalls
    /\ nconfig' = nconfig + 1
    /\ last' = n
    /\ builders' = [builders EXCEPT ![n].timeout = timeout]
    /\ inherit' = Overridden(n, "timeout")
    /\ UNCHANGED <<callvars, reqvars, respvars, jsonvars, sidevars, maps, clients>>

BuilderWithBaseURL(n, baseURL) ==
    /\ n \in DOMAIN builders
    /\ nconfig < MaxConfigCalls
    /\ nconfig' = nconfig + 1
    /\ last' = n
    /\ builders' = [builders EXCEPT ![n].baseURL = TrimSuffix(baseURL, Slash)]
    /\ inherit' = Overridden(n, "baseURL")
    /\ UNCHANGED <<callvars, reqvars, respvars, jsonvars, sidevars, maps, clients>>

BuilderWithDefaultHeader(n, key, value) ==
    /\ n \in DOMAIN builders
    /\ nconfig < MaxConfigCalls
    /\ nconfig' = nconfig + 1
    /\ last' = n
    /\ maps' = [maps EXCEPT ![builders[n].defaultHeaders] = Put(@, key, value)]
    /\ inherit' = Overridden(n, key)
    /\ UNCHANGED <<callvars, reqvars, respvars, jsonvars, sidevars, builders, clients>>

BuilderWithDefaultHeaders(n, headers) ==
    /\ n \in DOMAIN builders
    /\ nconfig < MaxConfigCalls
    /\ nconfig' = nconfig + 1
    /\ last' = n
    /\ maps' = [maps EXCEPT ![builders[n].defaultHeaders] = PutAll(@, headers)]
    /\ inherit' = IF n \in DOMAIN inherit
                  THEN [inherit EXCEPT ![n].set = @ \cup DOMAIN headers]
                  ELSE inherit
    /\ UNCHANGED <<callvars, reqvars, respvars, jsonvars, sidevars, builders, clients>>

BuilderWithRetry(n, config) ==
    /\ n \in DOMAIN builders
    /\ nconfig < MaxConfigCalls
    /\ nconfig' = nconfig + 1
    /\ last' = n
    /\ builders' = [builders EXCEPT ![n].retry = config]
    /\ inherit' = Overridden(n, "retry")
    /\ UNCHANGED <<callvars, reqvars, respvars, jsonvars, sidevars, maps, clients>>

BuilderWithCircuitBreaker(n, config) ==
    /\ n \in DOMAIN builders
    /\ nconfig < MaxConfigCalls
    /\ nconfig' = nconfig + 1
    /\ last' = n
    /\ builders' = [builders EXCEPT ![n].circuitBreaker = config]
    /\ inherit' = Overridden(n, "circuitBreaker")
    /\ UNCHANGED <<callvars, reqvars, respvars, jsonvars, sidevars, maps, clients>>

BuilderBuild(n) ==
    /\ n \in DOMAIN builders
    /\ Len(clients) < MaxClients
    /\ last' = n
    /\ LET r == BuildClient(builders[n], maps) IN
       /\ clients' = Append(clients, [cl |-> r.client, by |-> n])
       /\ maps' = r.heap
    /\ UNCHANGED <<callvars, reqvars, respvars, jsonvars, sidevars, builders, inherit, nconfig>>

FromSharedClient(i, name, baseURL) ==
    /\ i \in 1..Len(clients)
    /\ "derived" \notin DOMAIN builders
    /\ last' = "derived"
    /\ LET parent == clients[i].cl
           addr == Len(maps) + 1
       IN /\ maps' = Append(maps, maps[parent.defaultHeaders])
          /\ builders' = [n \in DOMAIN builders \cup {"derived"} |->
                IF n = "derived"
                THEN SharedBuilder(parent, maps, name, baseURL, addr)
                ELSE builders[n]]
          /\ inherit' = [n \in {"derived"} |->
                [parent |-> i, view |-> View(parent, maps), given |-> baseURL,
                 set |-> {}]]
    /\ UNCHANGED <<callvars, reqvars, respvars, jsonvars, sidevars, clients, nconfig>>

NextCfg ==
    \/ \E n \in {"base", "derived"}, t \in CfgTimeouts : BuilderWithTimeout(n, t)
    \/ \E n \in {"base", "derived"}, u \in CfgBaseURLs : BuilderWithBaseURL(n, u)
    \/ \E n \in {"base", "derived"}, k \in CfgKeys, v \in CfgValues :
         BuilderWithDefaultHeader(n, k, v)
    \/ \E n \in {"base", "derived"}, m \in CfgHeaderMaps :
         BuilderWithDefaultHeaders(n, m)
    \/ \E n \in {"base", "derived"} : BuilderWithRetry(n, DefaultRetryConfig)
    \/ \E n \in {"base", "derived"}, k \in CustomCircuitBreakerConfigs :
         BuilderWithCircuitBreaker(n, k)
    \/ \E n \in {"base", "derived"} : BuilderBuild(n)
    \/ \E i \in 1..MaxClients, name \in CfgNames, u \in CfgBaseURLs \cup {<<>>} :
         FromSharedClient(i, name, u)

SpecCfg == InitCfg /\ [][NextCfg]_vars

\* ------------------------------------------------------ createRequest
\* Request options applied to one RequestConfig.  options and lastSet are
\* history: how many were applied, and per header name the value the last
\* option that named it gave.
MaxOptions == 2

\* All maps with keys among K and values among V.
PartialMaps(K, V) == UNION { [D -> V] : D \in SUBSET K }

\* Header names as callers spell them, and values.
HeaderNames == {"Content-Type", "content-type", "X-Id"}
DefaultValues == {"d", ""}
CallValues == {"p", "q", ""}

\* textproto.CanonicalMIMEHeaderKey, which http.Header's Set and Get apply
\* to the name: first letter and every letter after a hyphen upper case,
\* the rest lower case.
CanonicalMIMEHeaderKey(k) ==
    CASE k = "content-type" -> "Content-Type"
      [] k = "x-id" -> "X-Id"
      [] OTHER -> k

\* http.Header (one value per name suffices: only Set is used).
HeaderSet(h, k, v) == Put(h, CanonicalMIMEHeaderKey(k), v)
HeaderGet(h, k) ==
    IF CanonicalMIMEHeaderKey(k) \in DOMAIN h THEN h[CanonicalMIMEHeaderKey(k)]
    ELSE ""

\* for k, v := range m { req.Header.Set(k, v) }: the headers it can leave.
\* The order of a range over a map is not fixed: of the keys of m with one
\* canonical form, any can come last.
SetAll(h, m) ==
    LET names == { CanonicalMIMEHeaderKey(k) : k \in DOMAIN m } IN
    { r \in [DOMAIN h \cup names -> DefaultValues \cup CallValues] :
        \A n \in DOMAIN r :
          IF n \in names
          THEN \E k \in DOMAIN m : CanonicalMIMEHeaderKey(k) = n /\ r[n] = m[k]
          ELSE r[n] = h[n] }

\* RequestConfig.Body: nil, a string, a []byte, an io.Reader, a value
\* json.Marshal encodes, a value it rejects (a channel, a func).
NilBody == [kind |-> "nil", data |-> "none"]
Bodies ==
    {NilBody}
    \cup { [kind |-> k, data |-> "payload"] :
             k \in {"string", "bytes", "reader", "struct", "chan"} }
RawKinds == {"string", "bytes", "reader"}

\* The body the request carries: the data as given, or its JSON encoding.
NoBody == [encoding |-> "none", data |-> "none"]
RequestBody(body) ==
    IF body.kind = "nil" THEN NoBody
    ELSE IF body.kind \in RawKinds THEN [encoding |-> "raw", data |-> body.data]
    ELSE [encoding |-> "json", data |-> body.data]

\* Base URLs given to WithBaseURL, and paths given to a call.
BaseURLInputs == {<<>>, <<"/">>, <<"h">>, <<"h", "/">>, <<"h", "/", "/">>}
Paths == {<<>>, <<"p">>, <<"/", "p">>, <<"/", "/", "p">>, <<":">>}

\* Mutant: the path's leading slash is kept.
buildURLKeepingSlash(baseURL, path) ==
    IF baseURL = <<>> THEN path ELSE baseURL \o Slash \o path

buildURL(baseURL, path) ==
    IF baseURL = <<>> THEN path ELSE baseURL \o Slash \o TrimPrefix(path, Slash)

\* url.Parse in http.NewRequestWithContext rejects a URL that starts with
\* a colon (missing protocol scheme).
ParseFails(url) == HasPrefix(url, <<":">>)

\* Mutant: the JSON content type is set whatever the headers say.
AutoContentTypeAlways(body, h) ==
    IF body.kind # "nil" /\ body.kind \notin RawKinds
    THEN HeaderSet(h, "Content-Type", "application/json")
    ELSE h

\* Set JSON content type if body was auto-marshaled.
AutoContentType(body, h) ==
    IF body.kind # "nil" /\ HeaderGet(h, "Content-Type") = ""
    THEN IF body.kind \in RawKinds THEN h
         ELSE HeaderSet(h, "Content-Type", "application/json")
    ELSE h

\* Mutant: the default headers are applied after the per-call headers.
MergedHeadersDefaultsLast(defaults, headers) ==
    UNION { SetAll(h, defaults) : h \in SetAll(EmptyMap, headers) }

\* Add default headers, then request-specific headers.
MergedHeaders(defaults, headers) ==
    UNION { SetAll(h, headers) : h \in SetAll(EmptyMap, defaults) }

\* createRequest(config): the results it can return.
createRequest(client, config) ==
    LET url == buildURL(client.baseURL, config.URL) IN
    IF config.Body.kind = "chan"
    THEN { [err |-> "failed to marshal body"] }
    ELSE IF ParseFails(url)
    THEN { [err |-> "failed to create request"] }
    ELSE { [err |-> "nil", url |-> url, body |-> RequestBody(config.Body),
            header |-> AutoContentType(config.Body, h)] :
           h \in MergedHeaders(client.defaultHeaders, config.Headers) }

\* A client as Build leaves it (given: what WithBaseURL was called with)
\* and a RequestConfig before its options: every base URL with every path,
\* and every set of default headers with every body.
ReqClient(u, m) ==
    [baseURL |-> TrimSuffix(u, Slash), given |-> u, defaultHeaders |-> m]
ReqConfig(p, body) ==
    [URL |-> p, Body |-> body, Headers |-> EmptyMap, options |-> 0,
     lastSet |-> EmptyMap]

InitReq ==
    /\ \/ /\ reqClient \in { ReqClient(u, EmptyMap) : u \in BaseURLInputs }
          /\ reqConfig \in { ReqConfig(p, NilBody) : p \in Paths }
       \/ /\ reqClient \in { ReqClient(<<"h">>, m) :
                               m \in PartialMaps(HeaderNames, DefaultValues) }
          /\ reqConfig \in { ReqConfig(<<"p">>, body) : body \in Bodies }
    /\ reqOut = None
    /\ CallsIdle /\ CfgIdle /\ RespIdle /\ JSONIdle /\ SideIdle

\* The option WithHeader(key, value) applied to the config.
OptionWithHeader(key, value) ==
    /\ reqOut = None
    /\ reqConfig.options < MaxOptions
    /\ reqConfig' = [reqConfig EXCEPT
         !.Headers = Put(@, key, value),
         !.options = @ + 1,
         !.lastSet = Put(@, CanonicalMIMEHeaderKey(key), value)]
    /\ UNCHANGED <<callvars, cfgvars, respvars, jsonvars, sidevars, reqClient, reqOut>>

\* The option WithHeaders(headers) applied to the config.
OptionWithHeaders(headers) ==
    /\ reqOut = None
    /\ reqConfig.options < MaxOptions
    /\ reqConfig' = [reqConfig EXCEPT
         !.Headers = PutAll(@, headers),
         !.options = @ + 1,
         !.lastSet = [n \in DOMAIN @ \cup { CanonicalMIMEHeaderKey(k) : k \in DOMAIN headers }
                        |-> IF \E k \in DOMAIN headers : CanonicalMIMEHeaderKey(k) = n
                            THEN headers[CHOOSE k \in DOMAIN headers :
                                           CanonicalMIMEHeaderKey(k) = n]
                            ELSE @[n]]]
    /\ UNCHANGED <<callvars, cfgvars, respvars, jsonvars, sidevars, reqClient, reqOut>>

CreateRequest ==
    /\ reqOut = None
    /\ reqOut' \in createRequest(reqClient, reqConfig)
    /\ UNCHANGED <<callvars, cfgvars, respvars, jsonvars, sidevars, reqClient, reqConfig>>

NextReq ==
    \/ \E k \in HeaderNames, v \in CallValues : OptionWithHeader(k, v)
    \/ \E m \in { [k \in {"X-Id", "content-type"} |-> "q"] } : OptionWithHeaders(m)
    \/ CreateRequest

SpecReq == InitReq /\ [][NextReq]_vars

\* --------------------------------------------------------------- JSON
\* A JSON text is the value it denotes, or Invalid for bytes that are not
\* JSON.  A number is its literal.
Invalid == [t |-> "invalid"]
JNull == [t |-> "null"]
JTrue == [t |-> "true"]
JNum(lit) == [t |-> "number", lit |-> lit]
JStr(str) == [t |-> "string", str |-> str]
JArr(items) == [t |-> "array", items |-> items]
JObj(members) == [t |-> "object", members |-> members]

\* The smallest integer above 2^53 that float64 cannot hold, and the
\* float64 nearest to it.
BigInt == "9007199254740993"
BigIntAsFloat64 == "9007199254740992"

\* json.Valid
ValidateJSON(jsonData) == jsonData # Invalid

\* The float64 a number literal is decoded to, written as Marshal writes it.
Float64(lit) == IF lit = BigInt THEN BigIntAsFloat64 ELSE lit

\* json.Unmarshal into interface{}: a number becomes a float64, an object a
\* map[string]interface{}, an array a []interface{}.
RECURSIVE DecodeValue(_)
DecodeValue(v) ==
    IF v.t = "number" THEN [g |-> "float64", lit |-> Float64(v.lit)]
    ELSE IF v.t = "object"
    THEN [g |-> "map", members |-> [k \in DOMAIN v.members |-> DecodeValue(v.members[k])]]
    ELSE IF v.t = "array"
    THEN [g |-> "slice", items |-> [i \in DOMAIN v.items |-> DecodeValue(v.items[i])]]
    ELSE IF v.t = "string" THEN [g |-> "string", str |-> v.str]
    ELSE IF v.t = "true" THEN [g |-> "bool"]
    ELSE [g |-> "nil"]

\* json.Marshal of such a value.
RECURSIVE EncodeValue(_)
EncodeValue(x) ==
    IF x.g = "float64" THEN JNum(x.lit)
    ELSE IF x.g = "map"
    THEN JObj([k \in DOMAIN x.members |-> EncodeValue(x.members[k])])
    ELSE IF x.g = "slice"
    THEN JArr([i \in DOMAIN x.items |-> EncodeValue(x.items[i])])
    ELSE IF x.g = "string" THEN JStr(x.str)
    ELSE IF x.g = "bool" THEN JTrue
    ELSE JNull

\* var obj map[string]interface{}; json.Unmarshal(jsonData, &obj) for valid
\* JSON: an object fills the map, null leaves it nil without an error, any
\* other value is an error.
UnmarshalObject(jsonData) ==
    IF jsonData.t = "object"
    THEN [err |-> "nil", obj |-> DecodeValue(jsonData).members]
    ELSE IF jsonData.t = "null" THEN [err |-> "nil", obj |-> EmptyMap]
    ELSE [err |-> "cannot unmarshal", obj |-> EmptyMap]

\* The loop of MergeJSON from argument i on, result being the map so far.
RECURSIVE MergeFrom(_, _, _)
MergeFrom(jsonObjects, i, result) ==
    IF i > Len(jsonObjects)
    THEN [err |-> "nil", json |-> EncodeValue([g |-> "map", members |-> result])]
    ELSE IF ~ValidateJSON(jsonObjects[i]) THEN [err |-> "invalid JSON data"]
    ELSE LET u == UnmarshalObject(jsonObjects[i]) IN
         IF u.err # "nil" THEN [err |-> "failed to unmarshal JSON object"]
         ELSE MergeFrom(jsonObjects, i + 1, PutAll(result, u.obj))

MergeJSON(jsonObjects) ==
    IF Len(jsonObjects) = 0 THEN [err |-> "nil", json |-> JObj(EmptyMap)]
    ELSE MergeFrom(jsonObjects, 1, EmptyMap)

\* Arguments given to one MergeJSON call.
MaxInputs == 2

\* The JSON texts given: objects over two keys, whose values are numbers
\* and nested objects, and texts that are not objects.
MergeKeys == {"a", "b"}
MergeValues ==
    {JNum("1"), JNum("2"), JNum(BigInt),
     JObj([k \in {"a"} |-> JNum("1")]), JObj([k \in {"b"} |-> JNum("2")])}
NonObjects == {Invalid, JNull, JTrue, JNum("1"), JStr("s"), JArr(<<JNum("1")>>)}
MergeInputs == { JObj(m) : m \in PartialMaps(MergeKeys, MergeValues) } \cup NonObjects

InitJSON ==
    /\ mergeArgs = <<>>
    /\ mergeOut = None
    /\ emptyArg = None /\ emptyOut = None
    /\ CallsIdle /\ CfgIdle /\ ReqIdle /\ RespIdle /\ SideIdle

\* One more argument of the call being written.
AddArgument(jsonData) ==
    /\ mergeOut = None
    /\ Len(mergeArgs) < MaxInputs
    /\ mergeArgs' = Append(mergeArgs, jsonData)
    /\ UNCHANGED <<callvars, cfgvars, reqvars, respvars, sidevars, mergeOut, emptyArg, emptyOut>>

CallMergeJSON ==
    /\ mergeOut = None
    /\ mergeOut' = MergeJSON(mergeArgs)
    /\ UNCHANGED <<callvars, cfgvars, reqvars, respvars, sidevars, mergeArgs, emptyArg, emptyOut>>

NextJSON ==
    \/ \E jsonData \in MergeInputs : AddArgument(jsonData)
    \/ CallMergeJSON

SpecJSON == InitJSON /\ [][NextJSON]_vars

\* ------------------------------------------------------- IsEmptyJSON
\* The bytes given to IsEmptyJSON are the sequence of their lexemes: the
\* punctuation of JSON, the literal null, a string, the space (whitespace
\* of JSON) and the form feed (whitespace for strings.TrimSpace, but not
\* for JSON).
StringLexeme == "\"k\""
Space == " "
FormFeed == "\f"

\* Whitespace lexemes before and after the text proper.
MaxPad == 1

RECURSIVE PadsOfLen(_)
PadsOfLen(n) ==
    IF n = 0 THEN {<<>>}
    ELSE { Append(t, x) : t \in PadsOfLen(n - 1), x \in {Space, FormFeed} }

Pads == UNION { PadsOfLen(n) : n \in 0..MaxPad }

\* The texts proper: the three empty values, the empty object and array
\* written with a space inside, values that are not empty, and texts that
\* are not JSON (the empty text among them).
EmptyValueTexts == {<<"{", "}">>, <<"[", "]">>, <<"null">>}
SpacedEmptyTexts == {<<"{", Space, "}">>, <<"[", Space, "]">>}
NonEmptyValueTexts ==
    {<<"[", "null", "]">>, <<"[", "[", "]", "]">>,
     <<"[", "null", ",", "null", "]">>,
     <<"{", StringLexeme, ":", "null", "}">>,
     <<"{", StringLexeme, ":", "{", "}", "}">>,
     <<"{", StringLexeme, ":", "null", ",", StringLexeme, ":", "[", "]", "}">>,
     <<StringLexeme>>}
InvalidTexts ==
    {<<>>, <<"{">>, <<"}">>, <<"[">>, <<"{", "]">>, <<"null", "null">>,
     <<"{", "}", "{", "}">>, <<"[", "]", Space, "[", "]">>,
     <<"{", FormFeed, "}">>, <<"[", ",", "]">>, <<"[", "null", ",", "]">>,
     <<"[", "null">>, <<"{", StringLexeme, "}">>, <<"{", StringLexeme, ":", "}">>,
     <<"{", "null", ":", "null", "}">>, <<":">>}

Texts ==
    { before \o text \o after :
        before \in Pads, after \in Pads,
        text \in EmptyValueTexts \cup SpacedEmptyTexts
                   \cup NonEmptyValueTexts \cup InvalidTexts }

\* The tokens of a text: JSON skips whitespace between them.
Tokens(text) == SelectSeq(text, LAMBDA x : x # Space)

\* The grammar of JSON over token sequences: a value; the elements of a
\* non-empty array; a member and the members of a non-empty object.
RECURSIVE IsValue(_), IsElements(_), IsMembers(_)
IsValue(t) ==
    \/ t = <<"null">>
    \/ t = <<StringLexeme>>
    \/ /\ Len(t) >= 2 /\ t[1] = "[" /\ t[Len(t)] = "]"
       /\ Len(t) = 2 \/ IsElements(SubSeq(t, 2, Len(t) - 1))
    \/ /\ Len(t) >= 2 /\ t[1] = "{" /\ t[Len(t)] = "}"
       /\ Len(t) = 2 \/ IsMembers(SubSeq(t, 2, Len(t) - 1))

IsElements(t) ==
    \/ IsValue(t)
    \/ \E i \in 2..(Len(t) - 1) :
         /\ t[i] = ","
         /\ IsValue(SubSeq(t, 1, i - 1))
         /\ IsElements(SubSeq(t, i + 1, Len(t)))

IsMember(t) ==
    Len(t) >= 3 /\ t[1] = StringLexeme /\ t[2] = ":" /\ IsValue(SubSeq(t, 3, Len(t)))

IsMembers(t) ==
    \/ IsMember(t)
    \/ \E i \in 4..(Len(t) - 1) :
         /\ t[i] = ","
         /\ IsMember(SubSeq(t, 1, i - 1))
         /\ IsMembers(SubSeq(t, i + 1, Len(t)))

\* json.Valid on the bytes, which is what ValidateJSON returns.
Valid(text) == IsValue(Tokens(text))

\* unicode.IsSpace
IsSpace(x) == x \in {Space, FormFeed}

\* strings.TrimSpace
TrimSpace(text) ==
    LET kept == { i \in 1..Len(text) : ~IsSpace(text[i]) } IN
    IF kept = {} THEN <<>>
    ELSE SubSeq(text, CHOOSE i \in kept : \A j \in kept : i <= j,
                      CHOOSE i \in kept : \A j \in kept : i >= j)

\* Mutant: the text is compared without being validated first.
IsEmptyJSONUnvalidated(text) ==
    LET trimmed == TrimSpace(text) IN
    trimmed = <<"{", "}">> \/ trimmed = <<"[", "]">> \/ trimmed = <<"null">>

IsEmptyJSON(text) ==
    IF ~Valid(text) THEN FALSE
    ELSE LET trimmed == TrimSpace(text) IN
         trimmed = <<"{", "}">> \/ trimmed = <<"[", "]">> \/ trimmed = <<"null">>

InitEmpty ==
    /\ emptyArg \in Texts
    /\ emptyOut = None
    /\ mergeArgs = <<>> /\ mergeOut = None
    /\ CallsIdle /\ CfgIdle /\ ReqIdle /\ RespIdle /\ SideIdle

CallIsEmptyJSON ==
    /\ emptyOut = None
    /\ emptyOut' = [bool |-> IsEmptyJSON(emptyArg)]
    /\ UNCHANGED <<callvars, cfgvars, reqvars, respvars, sidevars,
                   mergeArgs, mergeOut, emptyArg>>

NextEmpty == CallIsEmptyJSON

SpecEmpty == InitEmpty /\ [][NextEmpty]_vars

\* ----------------------------------------------------------- Response
\* Status codes and bodies of the Responses the methods are called on.
ResponseStatuses == {0, 100, 199, 200, 204, 299, 300, 404, 500}
ResponseBodies == {Invalid, JObj(EmptyMap), JNum(BigInt)}
ResponseHeaders == {EmptyMap, [k \in {"Content-Type"} |-> "application/json"]}

\* Mutant: 300 counts as a success.
IsSuccessUpTo300(r) == r.StatusCode >= 200 /\ r.StatusCode <= 300

\* return r.StatusCode >= 200 && r.StatusCode < 300
IsSuccess(r) == r.StatusCode >= 200 /\ r.StatusCode < 300

\* return string(r.Body)
String(r) == r.Body

\* return json.Unmarshal(r.Body, v), v being a *interface{}
JSON(r) ==
    IF r.Body = Invalid THEN [err |-> "syntax error"]
    ELSE [err |-> "nil", v |-> DecodeValue(r.Body)]

InitResp ==
    /\ response \in [StatusCode : ResponseStatuses, Body : ResponseBodies,
                     Headers : ResponseHeaders]
    /\ respOut = None
    /\ CallsIdle /\ CfgIdle /\ ReqIdle /\ JSONIdle /\ SideIdle

CallIsSuccess ==
    /\ response # None
    /\ respOut' = [method |-> "IsSuccess", bool |-> IsSuccess(response)]
    /\ UNCHANGED <<callvars, cfgvars, reqvars, jsonvars, sidevars, response>>

CallString ==
    /\ response # None
    /\ respOut' = [method |-> "String", string |-> String(response)]
    /\ UNCHANGED <<callvars, cfgvars, reqvars, jsonvars, sidevars, response>>

CallJSON ==
    /\ response # None
    /\ respOut' = [method |-> "JSON", result |-> JSON(response)]
    /\ UNCHANGED <<callvars, cfgvars, reqvars, jsonvars, sidevars, response>>

NextResp == CallIsSuccess \/ CallString \/ CallJSON

SpecResp == InitResp /\ [][NextResp]_vars

\* ------------------------------------------------ the response envelope
StatusAccept == "Accepted"
StatusReject == "Rejected"
StatusFailure == "Failed"

ValidationError(field, reason) == [Field |-> field, Reason |-> reason]

\* A value of type any: nil, some payload, or a []ValidationError.
NilData == [kind |-> "nil"]
Payload(x) == [kind |-> "payload", payload |-> x]
ValidationErrors(errs) == [kind |-> "[]ValidationError", errs |-> errs]

\* Validation errors handed to one constructor call.
MaxErrors == 2

EnvelopeStatuses == {StatusAccept, StatusReject, StatusFailure, "Partial"}
EnvelopeMessages == {"", "created", "invalid", "not found"}
EnvelopeErrors ==
    {ValidationError("email", "Required"), ValidationError("age", "Negative"),
     ValidationError("email", "Malformed")}

RECURSIVE ErrorLists(_)
ErrorLists(n) ==
    IF n = 0 THEN {<<>>}
    ELSE ErrorLists(n - 1)
         \cup { Append(l, e) : l \in ErrorLists(n - 1), e \in EnvelopeErrors }

EnvelopeData ==
    {NilData, Payload("user"), Payload("order"),
     ValidationErrors(<<ValidationError("email", "Required")>>)}

NewResponse(status, message, data) ==
    [Status |-> status, Message |-> message, Data |-> data]

NewSuccessResponse(message, data) ==
    [Status |-> StatusAccept, Message |-> message, Data |-> data]

\* Mutant: the error constructor tags the envelope Failed.
NewErrorResponseAsFailure(message) ==
    [Status |-> StatusFailure, Message |-> message, Data |-> NilData]

NewErrorResponse(message) ==
    [Status |-> StatusReject, Message |-> message, Data |-> NilData]

NewErrorResponseWithValidationErrors(message, validationErrors) ==
    [Status |-> StatusReject, Message |-> message,
     Data |-> ValidationErrors(validationErrors)]

InitEnv ==
    /\ envelope = None
    /\ LogIdle /\ BackoffIdle /\ TimeIdle
    /\ CallsIdle /\ CfgIdle /\ ReqIdle /\ RespIdle /\ JSONIdle

\* What each action leaves alone.
EnvFrame ==
    UNCHANGED <<callvars, cfgvars, reqvars, respvars, jsonvars, logvars,
                backoffvars, timevars>>

CallNewResponse(status, message, data) ==
    /\ envelope = None
    /\ envelope' = [by |-> "NewResponse", status |-> status, message |-> message,
                    data |-> data, errors |-> <<>>,
                    out |-> NewResponse(status, message, data)]
    /\ EnvFrame

CallNewSuccessResponse(message, data) ==
    /\ envelope = None
    /\ envelope' = [by |-> "NewSuccessResponse", status |-> "", message |-> message,
                    data |-> data, errors |-> <<>>,
                    out |-> NewSuccessResponse(message, data)]
    /\ EnvFrame

CallNewErrorResponse(message) ==
    /\ envelope = None
    /\ envelope' = [by |-> "NewErrorResponse", status |-> "", message |-> message,
                    data |-> NilData, errors |-> <<>>,
                    out |-> NewErrorResponse(message)]
    /\ EnvFrame

CallNewErrorResponseWithValidationErrors(message, validationErrors) ==
    /\ envelope = None
    /\ envelope' = [by |-> "NewErrorResponseWithValidationErrors", status |-> "",
                    message |-> message, data |-> NilData,
                    errors |-> validationErrors,
                    out |-> NewErrorResponseWithValidationErrors(message,
                                                                 validationErrors)]
    /\ EnvFrame

NextEnv ==
    \/ \E status \in EnvelopeStatuses, message \in EnvelopeMessages,
          data \in EnvelopeData : CallNewResponse(status, message, data)
    \/ \E message \in EnvelopeMessages, data \in EnvelopeData :
         CallNewSuccessResponse(message, data)
    \/ \E message \in EnvelopeMessages : CallNewErrorResponse(message)
    \/ \E message \in EnvelopeMessages, validationErrors \in ErrorLists(MaxErrors) :
         CallNewErrorResponseWithValidationErrors(message, validationErrors)

SpecEnv == InitEnv /\ [][NextEnv]_vars

\* ------------------------------------------------------------ the logger
\* A *zap.Logger: Nil, or what the configuration of InitLogger and the
\* fields added with With make of it.
ZapLogger(level, stacktrace, fields) ==
    [nil |-> FALSE, level |-> level, stacktrace |-> stacktrace, fields |-> fields]

\* zap.String(key, value)
ZapString(key, value) == [key |-> key, value |-> value]

\* lvl.UnmarshalText: the level named, info for the empty text; an unknown
\* name is an error and leaves the default, info.
ParseLevel(logLevel) ==
    IF logLevel \in {"debug", "warn", "error"} THEN logLevel ELSE "info"

\* The logger InitLogger builds.
BuiltLogger(logLevel, env) ==
    ZapLogger(ParseLevel(logLevel), env # "production", <<>>)

\* Logger.With(fields...): a child logger; the receiver is not changed.
With(logger, field) == [logger EXCEPT !.fields = Append(@, field)]

\* Context keys are compared by type and value.
loggerKey == [type |-> "log.contextKey", key |-> "0"]
RequestIDKey == [type |-> "string", key |-> "RequestID"]
ForeignRequestIDKey == [type |-> "middleware.contextKey", key |-> "RequestID"]

\* Context values, by dynamic type.
LoggerValue(logger) == [type |-> "*zap.Logger", logger |-> logger, str |-> ""]
StringValue(str) == [type |-> "string", logger |-> Nil, str |-> str]
IntValue == [type |-> "int", logger |-> Nil, str |-> ""]
NoValue == [type |-> "nil", logger |-> Nil, str |-> ""]

\* A context.Context: nil, or the values attached since
\* context.Background(), the innermost last.
NilContext == [nil |-> TRUE, values |-> <<>>]
Background == [nil |-> FALSE, values |-> <<>>]

\* context.WithValue(ctx, key, val)
ContextWithValue(ctx, key, val) ==
    [ctx EXCEPT !.values = Append(@, [key |-> key, val |-> val])]

\* ctx.Value(key): the innermost value attached under the key, or nil.
Value(ctx, key) ==
    LET at == { i \in 1..Len(ctx.values) : ctx.values[i].key = key } IN
    IF at = {} THEN NoValue
    ELSE ctx.values[CHOOSE i \in at : \A j \in at : i >= j].val

WithContext(ctx, logger) == ContextWithValue(ctx, loggerKey, LoggerValue(logger))

\* Mutant: the request identifier is looked for before the attached logger.
FromContextRequestIDFirst(ctx, global) ==
    IF ctx.nil THEN global
    ELSE LET requestID == Value(ctx, RequestIDKey)
             logger == Value(ctx, loggerKey) IN
         IF requestID.type = "string" /\ requestID.str # ""
         THEN With(global, ZapString("request_id", requestID.str))
         ELSE IF logger.type = "*zap.Logger" THEN logger.logger
         ELSE global

\* FromContext(ctx), global being the package variable Logger.
FromContext(ctx, global) ==
    IF ctx.nil THEN global
    ELSE LET logger == Value(ctx, loggerKey)
             requestID == Value(ctx, RequestIDKey) IN
         IF logger.type = "*zap.Logger" THEN logger.logger
         ELSE IF requestID.type = "string" /\ requestID.str # ""
         THEN With(global, ZapString("request_id", requestID.str))
         ELSE global

\* Values attached to one context.
MaxValues == 2

LogLevels == {"", "debug", "verbose"}
LogEnvs == {"production", "development"}
RequestIDValues == {StringValue("req-123"), StringValue(""), IntValue}

\* A logger the application made for one component.
ComponentLogger == ZapLogger("debug", TRUE, <<ZapString("component", "db")>>)

\* The process-wide logger has been initialized; no context was made yet.
InitLog ==
    /\ Logger \in { BuiltLogger(logLevel, env) : logLevel \in LogLevels, env \in LogEnvs }
    /\ logCtx = NilContext
    /\ logOut = None
    /\ EnvIdle /\ BackoffIdle /\ TimeIdle
    /\ CallsIdle /\ CfgIdle /\ ReqIdle /\ RespIdle /\ JSONIdle

LogFrame ==
    UNCHANGED <<callvars, cfgvars, reqvars, respvars, jsonvars, envvars,
                backoffvars, timevars>>

InitLogger(logLevel, env) ==
    /\ Logger' = BuiltLogger(logLevel, env)
    /\ logOut' = None
    /\ UNCHANGED logCtx
    /\ LogFrame

\* ctx := context.Background()
NewContext ==
    /\ logCtx' = Background
    /\ logOut' = None
    /\ UNCHANGED Logger
    /\ LogFrame

\* ctx = context.WithValue(ctx, key, val), by the application or a middleware
AttachValue(key, val) ==
    /\ ~logCtx.nil
    /\ Len(logCtx.values) < MaxValues
    /\ logCtx' = ContextWithValue(logCtx, key, val)
    /\ logOut' = None
    /\ UNCHANGED Logger
    /\ LogFrame

\* ctx = WithContext(ctx, logger)
AttachLogger(logger) ==
    /\ ~logCtx.nil
    /\ Len(logCtx.values) < MaxValues
    /\ logCtx' = WithContext(logCtx, logger)
    /\ logOut' = None
    /\ UNCHANGED Logger
    /\ LogFrame

CallFromContext ==
    /\ logOut = None
    /\ logOut' = [logger |-> FromContext(logCtx, Logger)]
    /\ UNCHANGED <<Logger, logCtx>>
    /\ LogFrame

NextLog ==
    \/ \E logLevel \in LogLevels, env \in LogEnvs : InitLogger(logLevel, env)
    \/ NewContext
    \/ \E val \in RequestIDValues : AttachValue(RequestIDKey, val)
    \/ AttachValue(ForeignRequestIDKey, StringValue("req-123"))
    \/ \E logger \in {Nil, ComponentLogger} : AttachLogger(logger)
    \/ AttachLogger(Logger)
    \/ CallFromContext

SpecLog == InitLog /\ [][NextLog]_vars

\* ---------------------------------------------- the delays of one policy
\* The attempt numbers calculateBackoff is called with: the loop calls it
\* with attempt = 1, 2, ... before its second, third, ... attempt.
MaxAttemptNumber == 4

\* The policies given to WithRetry, which takes any RetryConfig: backoffs
\* of -4us to 8us, limits of -1us to 20us, factors 1/2, 1, 3/2 and 2.
BackoffPolicies ==
    { RetryConfig(MaxAttemptNumber + 1, ib, mb, [num |-> f[1], den |-> f[2]]) :
        ib \in {-4, 0, 4, 8}, mb \in {-1, 0, 5, 20},
        f \in {<<1, 2>>, <<1, 1>>, <<3, 2>>, <<2, 1>>} }

InitBackoff ==
    /\ policy \in BackoffPolicies
    /\ delays = <<>>
    /\ EnvIdle /\ LogIdle /\ TimeIdle
    /\ CallsIdle /\ CfgIdle /\ ReqIdle /\ RespIdle /\ JSONIdle

\* delay := rc.calculateBackoff(attempt), for the next attempt number
ComputeBackoff ==
    /\ Len(delays) < MaxAttemptNumber
    /\ delays' = Append(delays, calculateBackoff(policy, Len(delays) + 1))
    /\ UNCHANGED <<callvars, cfgvars, reqvars, respvars, jsonvars, envvars,
                   logvars, timevars, policy>>

NextBackoff == ComputeBackoff

SpecBackoff == InitBackoff /\ [][NextBackoff]_vars

\* ------------------------------------------- one attempt against the clock
\* Time is counted in seconds from the moment client.Do is entered.  A
\* timeout or deadline of 0 is none: http.Client.Timeout = 0, the zero
\* RequestConfig.Timeout of a call without the WithTimeout option, a
\* context without a deadline.
MaxElapsed == 3

ClientTimeouts == {0, 2, 3}
RequestTimeouts == {0, 1, 3}
ContextDeadlines == {0, 2}

\* The deadline of the context createRequest gives the request: the one of
\* config.Context (context.Background() when nil).  config.Timeout is not
\* read.
RequestDeadline(config) == config.Deadline

\* The earliest instant at which client.Do gives up: http.Client.Timeout
\* or the request context's deadline; 0 if neither is set.
GiveUpAt(clientTimeout, deadline) ==
    IF clientTimeout = 0 THEN deadline
    ELSE IF deadline = 0 THEN clientTimeout
    ELSE IF deadline < clientTimeout THEN deadline ELSE clientTimeout

InitTime ==
    /\ timed \in { [pc |-> "idle", clientTimeout |-> t,
                    config |-> [Timeout |-> rt, Deadline |-> d],
                    deadline |-> 0, elapsed |-> 0, result |-> "none"] :
                   t \in ClientTimeouts, rt \in RequestTimeouts,
                   d \in ContextDeadlines }
    /\ EnvIdle /\ LogIdle /\ BackoffIdle
    /\ CallsIdle /\ CfgIdle /\ ReqIdle /\ RespIdle /\ JSONIdle

TimeFrame ==
    UNCHANGED <<callvars, cfgvars, reqvars, respvars, jsonvars, envvars,
                logvars, backoffvars>>

\* Request: createRequest, then client.Do is entered.
StartAttempt ==
    /\ timed.pc = "idle"
    /\ timed' = [timed EXCEPT !.pc = "flight",
                              !.deadline = RequestDeadline(timed.config)]
    /\ TimeFrame

\* A second passes with the attempt in flight; at the instant client.Do
\* gives up no more time passes before it returns.
Tick ==
    /\ timed.pc = "flight"
    /\ timed.elapsed < MaxElapsed
    /\ LET at == GiveUpAt(timed.clientTimeout, timed.deadline) IN
       at = 0 \/ timed.elapsed < at
    /\ timed' = [timed EXCEPT !.elapsed = @ + 1]
    /\ TimeFrame

\* The server's response arrives before client.Do gives up.
ResponseArrives ==
    /\ timed.pc = "flight"
    /\ LET at == GiveUpAt(timed.clientTimeout, timed.deadline) IN
       at = 0 \/ timed.elapsed < at
    /\ timed' = [timed EXCEPT !.pc = "done", !.result = "response"]
    /\ TimeFrame

\* client.Do gives up: the client's timeout or the context's deadline.
GiveUp ==
    /\ timed.pc = "flight"
    /\ LET at == GiveUpAt(timed.clientTimeout, timed.deadline) IN
       /\ at # 0 /\ timed.elapsed >= at
       /\ timed' = [timed EXCEPT !.pc = "done",
                      !.result = IF timed.deadline # 0 /\ at = timed.deadline
                                 THEN "context deadline exceeded"
                                 ELSE "Client.Timeout exceeded"]
    /\ TimeFrame

NextTime == StartAttempt \/ Tick \/ ResponseArrives \/ GiveUp

SpecTime == InitTime /\ [][NextTime]_vars

\* =============================================================== claims
\* The status codes the specification names as eligible for retry.
RetryStatus(s) == (s >= 500 /\ s <= 599) \/ s = 429 \/ s = 408

\* An attempt that ended in an error of executeRequest (client.Do's, the
\* body read's, the breaker's refusal) or in a response with a retry status.
FailedEligibly(o) ==
    o.kind \in {"err", "readerr", "rejected"}
    \/ (o.kind = "resp" /\ RetryStatus(o.status))

\* The call was ended by the select's context branch.
AbortedByContext(cl) == cl.sel.took \in {"ctx", "woke-ctx"}

CreateFailed(cl) == cl.result.kind = "err" /\ cl.result.err.base = "create"

RECURSIVE Pow(_, _)
Pow(x, n) == IF n <= 0 THEN 1 ELSE x * Pow(x, n - 1)

\* C1: with a retry policy of N >= 1 attempts, a call all of whose attempts
\* failed with a transport error or a retry status (none refused by the
\* breaker, the call not cut short by its context) has made exactly N
\* transport attempts and returned an error that wraps the last attempt's
\* error or status; it returned no response.  No call makes more than N.
C1_ExhaustedAfterMaxAttempts ==
    \A c \in Callers :
      LET cl == call[c] IN
      (phase = "built" /\ ~rc.retry.nil /\ rc.retry.MaxAttempts >= 1) =>
        /\ cl.transports <= rc.retry.MaxAttempts
        /\ (cl.pc = "done" /\ cl.tries >= 1 /\ cl.rejects = 0
              /\ ~AbortedByContext(cl)
              /\ FailedEligibly(cl.out))
           => /\ cl.transports = rc.retry.MaxAttempts
              /\ cl.result.kind = "err"
              /\ Len(cl.result.err.chain) >= 1
              /\ cl.result.err.chain[1] = "max retries exceeded"
              /\ (cl.out.kind = "resp" =>
                    cl.result.err.base = "HTTP"
                    /\ cl.result.err.status = cl.out.status)
              /\ (cl.out.kind = "err" => cl.result.err.base = cl.out.cause)
              /\ (cl.out.kind = "readerr" => cl.result.err.base = "read")

C1_Witness ==
    \E c \in Callers :
      /\ ~rc.retry.nil /\ rc.retry.MaxAttempts = 3
      /\ call[c].pc = "done" /\ call[c].transports = 3
      /\ call[c].out.kind = "resp" /\ call[c].out.status = 500
      /\ call[c].result = ExhaustedResult(Err(<<>>, "HTTP", 500))

\* The wait the specification states before attempt number n (n >= 2):
\* min(MaxBackoff, InitialBackoff * BackoffFactor^(n-1)).
ClaimedBackoff(retry, n) ==
    LET d == Trunc(retry.InitialBackoff * Pow(retry.BackoffFactor.num, n - 1),
                   Pow(retry.BackoffFactor.den, n - 1))
    IN IF d > retry.MaxBackoff THEN retry.MaxBackoff ELSE d

\* C2: the wait before attempt n >= 2 (attempts numbered from 1) is
\* min(MaxBackoff, InitialBackoff * BackoffFactor^(n-1)).  attempt is the
\* loop's 0-based index, so n = attempt + 1.
C2_ExponentialBackoff ==
    \A c \in Callers :
      (~rc.retry.nil /\ call[c].attempt >= 1
         /\ call[c].pc \in {"wait", "exec", "flight"})
      => call[c].delay = ClaimedBackoff(rc.retry, call[c].attempt + 1)

\* C3: with a retry policy, an attempt is followed by another one only if it
\* ended in an error or in a response with status 5xx, 429 or 408; a
\* response with any other status ends the call at once: it is returned
\* with no error and no later attempt is made.
C3_RetryOnlyWhenEligible ==
    \A c \in Callers :
      LET cl == call[c] IN
      (phase = "built" /\ ~rc.retry.nil) =>
        /\ (cl.attempt >= 1 /\ cl.pc \in {"loop", "wait", "exec", "flight"})
           => FailedEligibly(cl.out)
        /\ (cl.out.kind = "resp" /\ ~RetryStatus(cl.out.status))
           => /\ cl.pc = "done"
              /\ cl.result = RespResult(cl.out.status)
              /\ cl.tries = cl.attempt + 1

C3_Witness ==
    \E c \in Callers :
      /\ ~rc.retry.nil
      /\ call[c].pc = "done" /\ call[c].tries = 2
      /\ call[c].result = RespResult(404)

\* The error executeRequest returns for what an attempt ended in.
AttemptError(o, wrapped) ==
    IF o.kind = "readerr" THEN Err(<<"failed to read response body">>, "read", 0)
    ELSE Err(IF wrapped \/ o.kind = "rejected" THEN <<"circuit breaker">> ELSE <<>>,
             o.cause, 0)

\* C4 as stated: without a retry policy every call (read: every call that
\* got as far as a request) makes exactly one transport attempt and returns
\* that attempt's outcome unchanged.
C4_ExactlyOneTransportAttempt ==
    \A c \in Callers :
      (phase = "built" /\ rc.retry.nil /\ call[c].pc = "done"
         /\ ~CreateFailed(call[c])) =>
        /\ call[c].transports = 1
        /\ (call[c].out.kind = "resp" => call[c].result = RespResult(call[c].out.status))
        /\ (call[c].out.kind # "resp" => call[c].result.kind = "err")

\* C4 amended: without a retry policy every call whose request was
\* constructed calls executeRequest exactly once, makes at most one
\* transport attempt (exactly one unless a configured breaker refuses the
\* request) and returns that attempt's outcome with no retry: its response
\* whatever the status code, with no error, or its error.
C4_SingleAttemptWithoutRetry ==
    \A c \in Callers :
      LET cl == call[c] IN
      (phase = "built" /\ rc.retry.nil /\ cl.pc = "done" /\ ~CreateFailed(cl)) =>
        /\ cl.tries = 1
        /\ cl.transports + cl.rejects = 1
        /\ (cb.nil => cl.transports = 1)
        /\ (cl.out.kind = "resp" => cl.result = RespResult(cl.out.status))
        /\ (cl.out.kind # "resp" =>
              cl.result = ErrResult(AttemptError(cl.out, ~cb.nil)))

C4_Witness ==
    \E c \in Callers :
      /\ phase = "built" /\ rc.retry.nil
      /\ call[c].pc = "done" /\ call[c].transports = 1
      /\ call[c].result = RespResult(500)

\* C5: a call whose context is cancelled while it is blocked in a backoff
\* wait returns at once with the context's own error, not wrapped as
\* "max retries exceeded", and makes no further attempt: it has made as
\* many attempts as had failed before the wait.
C5_CancelDuringBackoff ==
    \A c \in Callers :
      call[c].sel.took = "woke-ctx" =>
        /\ call[c].pc = "done"
        /\ call[c].result = ErrResult(Err(<<>>, "ctx", 0))
        /\ call[c].tries = call[c].attempt
        /\ call[c].transports + call[c].rejects = call[c].attempt

C5_Witness ==
    \E c \in Callers :
      /\ call[c].sel.took = "woke-ctx" /\ call[c].delay > 0
      /\ call[c].pc = "done" /\ call[c].transports = 2

\* C6: once its context is finished a call starts no new attempt, whatever
\* the delay: a backoff select that finds the context finished takes the
\* context's branch.
C6_NoAttemptPastCancel ==
    \A c \in Callers : call[c].sel.ctx => call[c].sel.took = "ctx"

\* C7: a request the breaker refuses does not reach the transport and is a
\* failed attempt like any other: without a retry policy the refusal is the
\* call's error; with one it counts as an attempt, is followed by the usual
\* backoff, and is the wrapped error when the attempts are exhausted.
C7_RefusalIsAFailedAttempt ==
    \A c \in Callers :
      LET cl == call[c]
          refusal == Err(<<"circuit breaker">>, cl.out.cause, 0)
      IN
      /\ cl.transports + cl.rejects = cl.tries
      /\ (cl.out.kind = "rejected" /\ rc.retry.nil) =>
           cl.pc = "done" /\ cl.result = ErrResult(refusal) /\ cl.transports = 0
      /\ (cl.out.kind = "rejected" /\ ~rc.retry.nil /\ cl.pc # "flight") =>
           /\ cl.attempt = cl.tries
           /\ cl.lastErr = refusal
           /\ cl.pc \in {"loop", "wait", "exec", "done"}
           /\ cl.pc \in {"wait", "exec"} =>
                cl.delay = calculateBackoff(rc.retry, cl.attempt)
           /\ cl.pc = "done" =>
                \/ AbortedByContext(cl) /\ cl.result = ContextResult
                \/ /\ cl.tries = rc.retry.MaxAttempts
                   /\ cl.result = ErrResult(Wrap("max retries exceeded", refusal))

C7_Witness ==
    \E c \in Callers :
      /\ ~rc.retry.nil /\ call[c].out.kind = "rejected"
      /\ call[c].pc = "done" /\ call[c].rejects >= 1 /\ call[c].transports >= 1
      /\ call[c].result.kind = "err"
      /\ call[c].result.err.chain = <<"max retries exceeded", "circuit breaker">>

\* The refusal without a retry policy also happens.
C7_WitnessNoRetry ==
    \E c \in Callers :
      rc.retry.nil /\ call[c].out.kind = "rejected" /\ call[c].pc = "done"

\* ------------------------------------------------- the breaker's steps
\* In this step caller c's request enters client.Do.
TransportStarted(c) == call'[c].transports = call[c].transports + 1

\* In this step caller c's request comes back from client.Do with an
\* error (a failure for the breaker) or with a response (a success), and
\* the breaker is still in the generation that admitted it.
Recorded(c) ==
    /\ call[c].pc = "flight" /\ call'[c].pc # "flight"
    /\ call[c].gen = currentState(cb).generation
FailureRecorded(c) == Recorded(c) /\ call'[c].out.kind = "err"
SuccessRecorded(c) == Recorded(c) /\ call'[c].out.kind # "err"

FailCounts(counts) ==
    [counts EXCEPT !.TotalFailures = @ + 1, !.ConsecutiveFailures = @ + 1,
                   !.ConsecutiveSuccesses = 0]

\* C8: while the breaker is Open and its timeout has not elapsed no request
\* reaches the transport; after the timeout only trial requests pass, at
\* most MaxRequests of them in Half-Open; the breaker closes again only
\* from Half-Open, on the success that completes MaxRequests consecutive
\* trial successes.
C8_OpenAdmitsNothing ==
    [][ ~cb.nil =>
          /\ \A c \in Callers :
               TransportStarted(c) =>
                 \/ cb.state = "closed" /\ cb'.state = "closed"
                 \/ /\ cb.state = "open" /\ cb.expired
                    /\ cb'.state = "half-open" /\ cb'.counts.Requests = 1
                 \/ /\ cb.state = "half-open" /\ cb'.state = "half-open"
                    /\ cb.counts.Requests < b.circuitBreaker.MaxRequests
          /\ (cb.state # "closed" /\ cb'.state = "closed") =>
               /\ cb.state = "half-open"
               /\ \E c \in Callers : SuccessRecorded(c)
               /\ cb.counts.ConsecutiveSuccesses + 1 >= b.circuitBreaker.MaxRequests
      ]_vars

C8_Witness ==
    \E c, d \in Callers :
      /\ c # d /\ ~cb.nil /\ cb.state = "half-open"
      /\ call[c].pc = "flight" /\ call[c].gen = cb.generation
      /\ call[d].out.kind = "rejected" /\ call[d].rejects >= 2

\* C9: the breaker changes state only Closed -> Open when a recorded
\* failure makes the trip predicate true, Open -> Half-Open once the
\* timeout has elapsed, Half-Open -> Closed on the success that completes
\* the configured MaxRequests consecutive trial successes, Half-Open ->
\* Open on a trial failure; and it does change state in each of these cases.
C9_BreakerTransitions ==
    [][ ~cb.nil =>
          LET cfg == b.circuitBreaker
              trips == ReadyToTrip(cfg.ReadyToTrip,
                                   FailCounts(currentState(cb).counts))
          IN
          /\ cb'.state # cb.state =>
               \/ /\ cb.state = "closed" /\ cb'.state = "open"
                  /\ \E c \in Callers : FailureRecorded(c)
                  /\ trips
               \/ cb.state = "open" /\ cb'.state = "half-open" /\ cb.expired
               \/ /\ cb.state = "half-open" /\ cb'.state = "closed"
                  /\ \E c \in Callers : SuccessRecorded(c)
                  /\ cb.counts.ConsecutiveSuccesses + 1 = cfg.MaxRequests
               \/ /\ cb.state = "half-open" /\ cb'.state = "open"
                  /\ \E c \in Callers : FailureRecorded(c)
          /\ (cb.state = "closed" /\ trips /\ \E c \in Callers : FailureRecorded(c))
               => cb'.state = "open"
          /\ (cb.state = "open" /\ cb.expired /\ cb' # cb) => cb'.state = "half-open"
          /\ (cb.state = "half-open" /\ \E c \in Callers : FailureRecorded(c))
               => cb'.state = "open"
          /\ (cb.state = "half-open" /\ (\E c \in Callers : SuccessRecorded(c))
                /\ cb.counts.ConsecutiveSuccesses + 1 = cfg.MaxRequests)
               => cb'.state = "closed"
      ]_vars

\* The default breaker has tripped, timed out, and passed all but the last
\* of its trial requests, which is in flight.
C9_Witness ==
    /\ ~cb.nil /\ cb.state = "half-open"
    /\ b.circuitBreaker.MaxRequests = DefaultCBMaxRequests
    /\ cb.counts.ConsecutiveSuccesses = DefaultCBMaxRequests - 1
    /\ \E c \in Callers : call[c].pc = "flight" /\ call[c].gen = cb.generation

\* C10: a client built from a fresh builder, with no retry and no breaker
\* call, has the retry policy and the breaker on: against HTTP 500 answers
\* it makes more than one attempt and returns an error.
C10_DefaultsEnabled ==
    (phase = "built" /\ b = NewClientBuilder) =>
      /\ ~rc.retry.nil
      /\ ~cb.nil
      /\ \A c \in Callers :
           (call[c].pc = "done" /\ call[c].out.kind = "resp"
              /\ call[c].out.status = 500)
           => call[c].transports > 1 /\ call[c].result.kind = "err"

\* --------------------------------------------- builders and their clients
\* The step builds a client from builder n.
Builds(n) ==
    /\ Len(clients') = Len(clients) + 1
    /\ clients'[Len(clients')].by = n

\* What builder n would build now.
BuilderView(n) ==
    [timeout |-> builders[n].timeout, baseURL |-> builders[n].baseURL,
     headers |-> maps[builders[n].defaultHeaders], retry |-> builders[n].retry,
     policy |-> IF builders[n].circuitBreaker.nil THEN Nil
                ELSE PolicyOf(NewCircuitBreaker(Settings(builders[n].circuitBreaker)))]

\* C11: a builder derived from a built client starts with the parent's
\* default headers, timeout, retry policy and breaker policy, and with the
\* parent's base URL when none is given; a client built from it has, in every
\* field and header key not set on the derived builder before that Build,
\* the parent's value.
C11_DerivedInheritsParent ==
    [][ /\ ("derived" \notin DOMAIN builders /\ "derived" \in DOMAIN builders') =>
            LET p == View(clients[inherit'["derived"].parent].cl, maps)
                d == BuilderView("derived")'
            IN /\ d.headers = p.headers /\ d.timeout = p.timeout
               /\ d.retry = p.retry /\ d.policy = p.policy
               /\ inherit'["derived"].given = <<>> => d.baseURL = p.baseURL
        /\ Builds("derived") =>
            LET p == inherit["derived"].view
                set == inherit["derived"].set
                d == View(clients'[Len(clients')].cl, maps')
            IN /\ "timeout" \notin set => d.timeout = p.timeout
               /\ "retry" \notin set => d.retry = p.retry
               /\ "circuitBreaker" \notin set => d.policy = p.policy
               /\ ("baseURL" \notin set /\ inherit["derived"].given = <<>>)
                    => d.baseURL = p.baseURL
               /\ \A k \in DOMAIN p.headers \ set :
                    k \in DOMAIN d.headers /\ d.headers[k] = p.headers[k]
               /\ DOMAIN d.headers \subseteq DOMAIN p.headers \cup set
      ]_vars

\* A client built from a derived builder that set one header and kept
\* another one and the base URL from its parent.
C11_Witness ==
    /\ "derived" \in DOMAIN inherit
    /\ \E i \in 1..Len(clients) :
         LET p == inherit["derived"].view
             d == View(clients[i].cl, maps)
         IN /\ clients[i].by = "derived"
            /\ inherit["derived"].given = <<>>
            /\ p.baseURL # <<>> /\ d.baseURL = p.baseURL
            /\ \E k \in DOMAIN d.headers : k \in inherit["derived"].set
            /\ \E k \in DOMAIN p.headers \ inherit["derived"].set :
                 d.headers[k] = p.headers[k]

\* C12: no call on a derived builder (a configuration call or Build,
\* before or after it was built) changes the client it was derived from:
\* default headers, timeout, base URL, retry policy and breaker policy stay.
C12_ParentUnchangedByDerived ==
    [][ last' = "derived" =>
          \A i \in 1..Len(clients) :
            clients[i].by = "base" =>
              View(clients'[i].cl, maps') = View(clients[i].cl, maps)
      ]_vars

\* The derived builder has given a header of its parent another value and
\* has been built.
C12_Witness ==
    /\ "derived" \in DOMAIN inherit /\ last = "derived"
    /\ \E i, j \in 1..Len(clients) :
         /\ clients[j].by = "derived" /\ i = inherit["derived"].parent
         /\ \E k \in DOMAIN maps[clients[i].cl.defaultHeaders] :
              /\ k \in DOMAIN maps[builders["derived"].defaultHeaders]
              /\ maps[builders["derived"].defaultHeaders][k]
                   # maps[clients[i].cl.defaultHeaders][k]
              /\ maps[clients[j].cl.defaultHeaders][k]
                   # maps[clients[i].cl.defaultHeaders][k]

\* C13: a built client never changes - no later call on its builder changes
\* its default headers, base URL, retry policy, breaker policy or timeout -
\* and no two clients share a header map.
C13_BuiltClientImmutable ==
    [][ /\ \A i \in 1..Len(clients) :
             View(clients'[i].cl, maps') = View(clients[i].cl, maps)
        /\ \A i, j \in 1..Len(clients') :
             i # j => clients'[i].cl.defaultHeaders # clients'[j].cl.defaultHeaders
      ]_vars

\* ------------------------------------------- the breaker under concurrency
\* The attempts the breaker admitted in its current generation that are
\* still inside client.Do.
InFlight == { c \in Callers : call[c].pc = "flight" /\ call[c].gen = cb.generation }

\* C14: under concurrent calls on one client no update of the breaker is
\* lost: in every state the requests it counts are the successes and
\* failures it counts plus the admitted attempts still in flight, the
\* consecutive counts agree with the totals, an Open breaker counts
\* nothing and a Half-Open one has admitted at most MaxRequests trials.
C14_BreakerCountsConsistent ==
    ~cb.nil =>
      /\ cb.counts.Requests
           = cb.counts.TotalSuccesses + cb.counts.TotalFailures + Cardinality(InFlight)
      /\ cb.counts.ConsecutiveSuccesses <= cb.counts.TotalSuccesses
      /\ cb.counts.ConsecutiveFailures <= cb.counts.TotalFailures
      /\ cb.counts.ConsecutiveSuccesses = 0 \/ cb.counts.ConsecutiveFailures = 0
      /\ cb.state = "open" => cb.counts = NewCounts
      /\ cb.state = "half-open" => cb.counts.Requests <= b.circuitBreaker.MaxRequests

\* Both callers have an attempt in flight in a generation that has already
\* counted a success and a failure.
C14_Witness ==
    /\ ~cb.nil
    /\ Cardinality(InFlight) = 2
    /\ cb.counts.TotalSuccesses >= 1 /\ cb.counts.TotalFailures >= 1

\* ------------------------------------------------- the constructed request
Created == reqOut # None /\ reqOut.err = "nil"

\* The value the request carries for the header k ("" when it has none).
Sent(k) == HeaderGet(reqOut.header, k)

\* The request's Content-Type is the one createRequest adds for a body it
\* has JSON-encoded (no caller's value is "application/json").
AutoTagged == Created /\ Sent("Content-Type") = "application/json"

\* The keys of m that spell the header name of k, and their values.
Spellings(m, k) ==
    { x \in DOMAIN m : CanonicalMIMEHeaderKey(x) = CanonicalMIMEHeaderKey(k) }
ValuesFor(m, k) == { m[x] : x \in Spellings(m, k) }

ContentTypeGiven ==
    Spellings(reqClient.defaultHeaders, "Content-Type") # {}
    \/ Spellings(reqConfig.Headers, "Content-Type") # {}

\* The values the merge can leave for Content-Type: the per-call ones if
\* any, else the default ones.
ContentTypeValues ==
    IF Spellings(reqConfig.Headers, "Content-Type") # {}
    THEN ValuesFor(reqConfig.Headers, "Content-Type")
    ELSE ValuesFor(reqClient.defaultHeaders, "Content-Type")

\* C16 as stated: a raw body (string, bytes, stream) is carried as it is
\* and never tagged; any other body is carried JSON-encoded and tagged
\* application/json exactly when no default or per-call header is a
\* Content-Type.
C16_JSONContentTypeUnlessSet ==
    Created =>
      /\ reqConfig.Body.kind \in RawKinds =>
           /\ reqOut.body = [encoding |-> "raw", data |-> reqConfig.Body.data]
           /\ ~AutoTagged
      /\ reqConfig.Body.kind \notin RawKinds \cup {"nil"} =>
           /\ reqOut.body = [encoding |-> "json", data |-> reqConfig.Body.data]
           /\ AutoTagged <=> ~ContentTypeGiven

\* C16 amended: ... tagged application/json exactly when the merged headers
\* carry no Content-Type or an empty one.
C16_JSONContentTypeUnlessNonEmpty ==
    Created =>
      /\ reqConfig.Body.kind \in RawKinds \cup {"nil"} =>
           /\ reqOut.body = RequestBody(reqConfig.Body)
           /\ reqConfig.Body.kind = "nil" => reqOut.body = NoBody
           /\ reqConfig.Body.kind \in RawKinds =>
                reqOut.body = [encoding |-> "raw", data |-> reqConfig.Body.data]
           /\ ~AutoTagged
      /\ reqConfig.Body.kind \notin RawKinds \cup {"nil"} =>
           /\ reqOut.body = [encoding |-> "json", data |-> reqConfig.Body.data]
           /\ AutoTagged => (~ContentTypeGiven \/ "" \in ContentTypeValues)
           /\ ~AutoTagged =>
                /\ ContentTypeGiven
                /\ Sent("Content-Type") \in ContentTypeValues \ {""}
           /\ ContentTypeValues \subseteq {""} => AutoTagged

\* A JSON-encoded body tagged automatically, no Content-Type given.
C16_Witness ==
    /\ Created /\ reqConfig.Body.kind = "struct"
    /\ ~ContentTypeGiven /\ reqConfig.options > 0
    /\ Sent("Content-Type") = "application/json"

\* s without its last character if that is a slash, without its first
\* character if that is a slash.
DropTrailingSlash(s) ==
    IF Len(s) > 0 /\ s[Len(s)] = "/" THEN [i \in 1..(Len(s) - 1) |-> s[i]] ELSE s
DropLeadingSlash(s) ==
    IF Len(s) > 0 /\ s[1] = "/" THEN [i \in 1..(Len(s) - 1) |-> s[i + 1]] ELSE s

C18_IsSuccessIs2xx ==
    [][ /\ respOut'.method = "IsSuccess" =>
             (respOut'.bool <=> response.StatusCode \in 200..299)
        /\ response' = response
      ]_vars

\* IsSuccess has answered for the last status code that is a success.
C18_Witness ==
    /\ respOut # None /\ respOut.method = "IsSuccess"
    /\ response.StatusCode = 299 /\ respOut.bool
    /\ response.Body = Invalid

\* -------------------------------------------------------------- MergeJSON
Merged == mergeOut # None
ObjectsOnly == \A i \in 1..Len(mergeArgs) : mergeArgs[i].t = "object"
KeysGiven == UNION { DOMAIN mergeArgs[i].members : i \in 1..Len(mergeArgs) }
LastWith(k) ==
    CHOOSE i \in 1..Len(mergeArgs) :
      /\ k \in DOMAIN mergeArgs[i].members
      /\ \A j \in (i + 1)..Len(mergeArgs) : k \notin DOMAIN mergeArgs[j].members

\* C19: MergeJSON of JSON objects returns the object whose keys are the
\* union of the inputs' keys, each with the value the last input that has
\* the key gives it (a nested object as a whole); of no input, {}.
C19_MergeLastWins ==
    (Merged /\ ObjectsOnly) =>
      /\ mergeOut.err = "nil"
      /\ mergeOut.json.t = "object"
      /\ DOMAIN mergeOut.json.members = KeysGiven
      /\ \A k \in KeysGiven :
           mergeOut.json.members[k] = mergeArgs[LastWith(k)].members[k]

\* C20: MergeJSON returns an error and no result whenever one of its
\* inputs, at any position, is not valid JSON or is valid JSON that is not
\* an object.
C20_MergeRejectsNonObjects ==
    (Merged /\ ~ObjectsOnly) => mergeOut.err # "nil"

\* ------------------------------------------------------------ IsEmptyJSON
\* The text without the JSON whitespace at its two ends.
Core(text) ==
    LET kept == { i \in 1..Len(text) : text[i] # Space } IN
    IF kept = {} THEN <<>>
    ELSE SubSeq(text, CHOOSE i \in kept : \A j \in kept : i <= j,
                      CHOOSE i \in kept : \A j \in kept : i >= j)

EmptyTexts == {<<"{", "}">>, <<"[", "]">>, <<"null">>}

\* C21: IsEmptyJSON answers true exactly when its input is valid JSON and
\* is {} or [] or null once the whitespace at its two ends is dropped; it
\* answers false for every invalid input and for every non-empty object
\* or array, and it always answers.
C21_IsEmptyExactly ==
    emptyOut # None =>
      /\ emptyOut.bool \in BOOLEAN
      /\ emptyOut.bool <=> (Valid(emptyArg) /\ Core(emptyArg) \in EmptyTexts)
      /\ ~Valid(emptyArg) => ~emptyOut.bool
      /\ (Valid(emptyArg) /\ Len(Tokens(emptyArg)) > 2) => ~emptyOut.bool

\* IsEmptyJSON has answered true for {} between whitespace.
C21_Witness ==
    /\ emptyOut # None /\ emptyOut.bool
    /\ emptyArg = <<Space, "{", "}", Space>>

\* ---------------------------------------------------- the response envelope
Constructed == envelope # None

\* What the three constructors of the claim yield.
MechanicalTags ==
    /\ envelope.by = "NewSuccessResponse" =>
         envelope.out = [Status |-> "Accepted", Message |-> envelope.message,
                         Data |-> envelope.data]
    /\ envelope.by = "NewErrorResponse" =>
         envelope.out = [Status |-> "Rejected", Message |-> envelope.message,
                         Data |-> NilData]
    /\ envelope.by = "NewErrorResponseWithValidationErrors" =>
         /\ envelope.out.Status = "Rejected"
         /\ envelope.out.Message = envelope.message
         /\ envelope.out.Data.kind = "[]ValidationError"
         /\ envelope.out.Data.errs = envelope.errors

\* C22: NewSuccessResponse yields Accepted with the given message and data,
\* NewErrorResponse yields Rejected with the given message and no data,
\* NewErrorResponseWithValidationErrors yields Rejected with the given
\* validation errors, in their order, as data; no constructor yields Failed.
C22_NoConstructorYieldsFailed ==
    Constructed => (MechanicalTags /\ envelope.out.Status # "Failed")

\* C22, amended: the three constructors yield what is said above and never
\* Failed; NewResponse yields the status it is given, Failed included.
C22_MechanicalTags ==
    Constructed =>
      /\ MechanicalTags
      /\ envelope.by # "NewResponse" => envelope.out.Status # "Failed"
      /\ envelope.by = "NewResponse" =>
           envelope.out = [Status |-> envelope.status, Message |-> envelope.message,
                           Data |-> envelope.data]

\* The validation-error constructor was given two errors, the later one
\* first in field order.
C22_Witness ==
    /\ Constructed
    /\ envelope.by = "NewErrorResponseWithValidationErrors"
    /\ envelope.errors = <<ValidationError("email", "Malformed"),
                           ValidationError("age", "Negative")>>
    /\ envelope.out.Data.errs = envelope.errors

\* ------------------------------------------------------------- the logger
\* Positions in the context of the attached loggers and of the values
\* under the string key "RequestID".
AttachedAt ==
    { i \in 1..Len(logCtx.values) : logCtx.values[i].key.type = "log.contextKey" }
RequestIDAt ==
    { i \in 1..Len(logCtx.values) :
        logCtx.values[i].key = [type |-> "string", key |-> "RequestID"] }
Innermost(at) == logCtx.values[CHOOSE i \in at : \A j \in at : i >= j].val
HasRequestID ==
    /\ RequestIDAt # {}
    /\ Innermost(RequestIDAt).type = "string"
    /\ Innermost(RequestIDAt).str # ""

\* What the claim says FromContext returned for the context it was given.
Precedence ==
    IF ~logCtx.nil /\ AttachedAt # {}
    THEN logOut.logger = Innermost(AttachedAt).logger
    ELSE IF ~logCtx.nil /\ HasRequestID
    THEN /\ logOut.logger.fields =
              Logger.fields \o <<[key |-> "request_id",
                                  value |-> Innermost(RequestIDAt).str]>>
         /\ [logOut.logger EXCEPT !.fields = Logger.fields] = Logger
    ELSE logOut.logger = Logger

AtMostMaxBackoff == \A k \in 1..Len(delays) : delays[k] <= policy.MaxBackoff
NonDecreasing == \A k \in 1..(Len(delays) - 1) : delays[k] <= delays[k + 1]
FactorAtLeastOne == policy.BackoffFactor.num >= policy.BackoffFactor.den

\* C24: for every retry policy and every attempt number the delay is at
\* most MaxBackoff, and with BackoffFactor >= 1 the delays before
\* successive attempts are non-decreasing.
C24_ClampedAndNonDecreasing ==
    AtMostMaxBackoff /\ (FactorAtLeastOne => NonDecreasing)

\* C24, amended: the delay is at most MaxBackoff for every policy; the
\* delays are non-decreasing when BackoffFactor >= 1 and InitialBackoff is
\* not negative.
C24_NonDecreasingFromNonNegative ==
    /\ AtMostMaxBackoff
    /\ (FactorAtLeastOne /\ policy.InitialBackoff >= 0) => NonDecreasing

\* A policy whose delays grow and then meet the limit.
C24_Witness ==
    /\ policy.InitialBackoff = 8 /\ policy.MaxBackoff = 20
    /\ policy.BackoffFactor = [num |-> 1, den |-> 1]
    /\ delays = <<0, 8, 16, 20>>

\* -------------------------------------------------- the configured policy
\* C25: with a retry policy, whatever MaxAttempts WithRetry was given, a
\* call whose request was constructed has made at least one attempt when it
\* returns (a transport attempt unless the breaker refused it), and an
\* error it returns has a real cause: an attempt's error or status, or the
\* context's error.
C25_AtLeastOneAttempt ==
    \A c \in Callers :
      LET cl == call[c] IN
      (phase = "built" /\ ~rc.retry.nil /\ cl.pc = "done" /\ ~CreateFailed(cl)) =>
        /\ cl.tries >= 1
        /\ cl.rejects = 0 => cl.transports >= 1
        /\ cl.result.kind = "err" => cl.result.err.base # "nil"

\* ------------------------------------------------- the default trip rule
\* At least 3 requests, at least 60% of them failed.
TripCondition(counts) ==
    counts.Requests >= 3 /\ 100 * counts.TotalFailures >= 60 * counts.Requests

\* C26: with the default circuit breaker the trip predicate is true exactly
\* when the window holds at least 3 requests of which at least 60% failed,
\* so never with fewer than 3 requests, none included; a failure recorded
\* while the breaker is Closed opens it if and only if the condition holds
\* of the counts that include the failure.
C26_DefaultTripRule ==
    [][ /\ ~ReadyToTrip("default", NewCounts)
        /\ \A c \in Callers :
             (~cb.nil /\ cb.readyToTrip = "default"
                /\ currentState(cb).state = "closed" /\ FailureRecorded(c))
             => LET counts == FailCounts(currentState(cb).counts) IN
                /\ ReadyToTrip("default", counts) <=> TripCondition(counts)
                /\ counts.Requests < 3 => ~ReadyToTrip("default", counts)
                /\ cb'.state = "open" <=> TripCondition(counts)
      ]_vars

\* The default breaker was opened by the second failure of a second call.
C26_Witness ==
    /\ ~cb.nil /\ cb.readyToTrip = "default"
    /\ cb.state = "open" /\ cb.generation = 1
    /\ rc.retry = DefaultRetryConfig
    /\ ncalls = 2 /\ call["g1"].tries = 2 /\ call["g1"].out.kind = "err"

\* -------------------------------------------------- the per-request timeout
TimeoutErrors == {"context deadline exceeded", "Client.Timeout exceeded"}

\* C27: an attempt still in flight when the per-request timeout of the
\* WithTimeout option has passed ends in a timeout error, even when the
\* client's timeout is longer; a call without the option is bound by the
\* client's timeout and its context only.
C27_RequestTimeoutTakesEffect ==
    timed.pc = "done" =>
      /\ (timed.config.Timeout # 0 /\ timed.elapsed > timed.config.Timeout)
         => timed.result \in TimeoutErrors
      /\ (timed.config.Timeout = 0 /\ timed.result \in TimeoutErrors)
         => timed.elapsed >= GiveUpAt(timed.clientTimeout, timed.config.Deadline)

\* ---------------------------------------------------------- the body sent
\* C28: every transport attempt of a call with a request body carries the
\* full body, the second and later attempts as the first.
C28_RetrySendsFullBody ==
    \A c \in Callers :
      (call[c].body # "none" /\ call[c].transports >= 1) => call[c].sent = "full"

\* ------------------------------------------- what the breaker is told
\* C29: the breaker records a failure only when client.Do returns an error;
\* an attempt that returns a response of any status, 5xx, 429 and 408
\* included, is recorded as a success; every attempt of a call, retries
\* included, is admitted and counted as a request of its own; and the
\* breaker opens only in a step that records a transport error.
C29_BreakerSeesTransportErrorsOnly ==
    [][ \A c \in Callers :
          LET cur == currentState(cb) IN
          /\ (~cb.nil /\ TransportStarted(c))
               => cb'.counts.Requests = cur.counts.Requests + 1
          /\ (~cb.nil /\ SuccessRecorded(c))
               => /\ cb'.state # "open"
                  /\ cb'.generation = cur.generation
                       => /\ cb'.counts.TotalSuccesses = cur.counts.TotalSuccesses + 1
                          /\ cb'.counts.TotalFailures = cur.counts.TotalFailures
          /\ (~cb.nil /\ FailureRecorded(c) /\ cb'.generation = cur.generation)
               => /\ cb'.counts.TotalFailures = cur.counts.TotalFailures + 1
                  /\ cb'.counts.TotalSuccesses = cur.counts.TotalSuccesses
          /\ (~cb.nil /\ cb.state # "open" /\ cb'.state = "open")
               => \E d \in Callers : FailureRecorded(d)
      ]_vars

\* The only call made so far opened the default breaker by itself: its
\* three attempts were three requests to the breaker, all transport errors.
C29_Witness ==
    /\ ~cb.nil /\ cb.readyToTrip = "default"
    /\ cb.state = "open" /\ cb.generation = 1
    /\ ncalls = 1
    /\ call["g1"].transports = 3 /\ call["g1"].tries = 3
    /\ call["g1"].out.kind = "err"

\* Three attempts of one call all answered HTTP 500: three requests and
\* three successes in the breaker's window, which stays Closed.
C29_AllServerErrorsStayClosed ==
    /\ ~cb.nil /\ cb.state = "closed" /\ cb.generation = 0
    /\ ncalls = 1 /\ call["g1"].pc = "done" /\ call["g1"].transports = 3
    /\ call["g1"].out = [kind |-> "resp", status |-> 500, cause |-> "nil"]
    /\ cb.counts.Requests = 3 /\ cb.counts.TotalSuccesses = 3
    /\ cb.counts.TotalFailures = 0
\* ------------------------------------------------------- termination
\* The attempts a client with this policy makes at most: one without a
\* policy, the configured count with one.
AttemptLimit(retry) ==
    IF retry.nil THEN 1 ELSE IF retry.MaxAttempts < 0 THEN 0 ELSE retry.MaxAttempts

Running(c) == call[c].pc \in {"loop", "wait", "exec", "flight"}
Returned(c) == call[c].pc = "done" /\ call[c].result.kind \in {"resp", "err"}

\* C30: every Request call terminates: if each transport attempt returns
\* and each backoff timer fires or the context is cancelled, a call under
\* way returns a response or an error; it never starts an attempt beyond
\* the configured count, so it returns after at most that many transport
\* attempts (one when no retry policy is set).
C30_CallTerminates ==
    /\ [](\A c \in Sequential :
            phase = "built" =>
              /\ call[c].tries <= AttemptLimit(rc.retry)
              /\ call[c].transports <= call[c].tries)
    /\ \A c \in Sequential : Running(c) ~> Returned(c)

\* A call bound to a context that was never cancelled has waited for its
\* backoff timer, used up the three attempts of its policy and returned.
C30_Witness ==
    /\ ~rc.retry.nil /\ rc.retry.MaxAttempts = 3
    /\ call["g1"].ctx = "live" /\ call["g1"].sel.took = "woke-timer"
    /\ call["g1"].tries = 3 /\ call["g1"].transports = 3 /\ Returned("g1")
====
